---- MODULE Spec2Model ----
(***************************************************************************)
(* A model of the usage-aggregation and risk-scoring backend:              *)
(* usage_tracker.py (daily aggregation, continuity runs),                  *)
(* addiction_predictor.py (rule-based risk, trend insights),               *)
(* behavior_analyzer.py (per-day feature matrix, anomaly windows),         *)
(* database_mongo.py (the usage_logs collection) and the request handlers  *)
(* of main.py that combine them.                                           *)
(*                                                                         *)
(* Timestamps are modelled to the minute as [date, hour, minute]; a date   *)
(* is a day number.  Durations are minutes (UsageData.duration is an int). *)
(* Real-valued results are kept exact: a probability score/7 is kept as    *)
(* the numerator in sevenths, and every comparison of means or slopes is   *)
(* cross-multiplied into integers.                                         *)
(***************************************************************************)
EXTENDS Integers, Sequences, FiniteSets, Bags, TLC

VARIABLES
    db,               \* MongoDatabase.db after startup: "connected" or "None"
    now,              \* datetime.now(), [date, hour, minute]
    logs,             \* the usage_logs collection, a bag of documents
    op,               \* the operation that ran last
    three_day_data,   \* the day window built by the last operation
    results,          \* what analyze_addiction_risk / analyze_behavior returned
    response,         \* the response sent for the last request
    sorted_sessions,  \* input of _calculate_max_continuous
    max_continuous,   \* its result
    day_record,       \* input of AddictionRiskPredictor.predict_risk
    current_risk,     \* its result
    window,           \* input of AddictionRiskPredictor.generate_insights
    insights,         \* its result
    features,         \* input of BehaviorAnalyzer._detect_behavioral_anomalies
    anomalies,        \* its result
    active_sessions,  \* RealTimeTracker.active_sessions, session_key -> session
    usage_buffer,     \* RealTimeTracker.usage_buffer, a deque(maxlen=1000)
    clock,            \* datetime.now() of the tracker, in seconds
    websockets,       \* where each websocket_endpoint coroutine is suspended
    session_calls,    \* history: per session_key, the process_usage calls
                      \* completed and the timestamp of the first one
    messages_received, \* history: messages the /ws coroutines have received
    ml_engine,        \* MLEngine: is_trained, the models fitted so far, and
                      \* (history) how often _train_models was entered
    predictor,        \* UsagePredictor, likewise
    requests,         \* the handler coroutines in flight and where each is
    running,          \* the coroutine the event loop is running, or "none"
    tracker_result,   \* what the last RealTimeTracker.process_usage returned
    detected,         \* input of PatternDetector._calculate_pattern_confidence
    confidence,       \* its result, in tenths
    cluster_history,  \* input of BehaviorAnalyzer._calculate_cluster_stability
    stability,        \* its result
    behavior_log,     \* input of BehaviorAnalyzer._calculate_pattern_consistency
    consistency,      \* its result
    predictions,      \* the predictions collection, user_id -> document
    wall_clock,       \* datetime.now() of the prediction handlers, in seconds
    prediction_requests, \* history: the get_predictions requests served
    prediction_response  \* what the last get_predictions returned, and the
                      \* user_id of the request

vars == <<db, now, logs, op, three_day_data, results, response,
          sorted_sessions, max_continuous, day_record, current_risk,
          window, insights, features, anomalies,
          active_sessions, usage_buffer, clock, websockets, session_calls,
          messages_received, ml_engine, predictor, requests, running,
          tracker_result, detected, confidence, cluster_history, stability,
          behavior_log, consistency, predictions, wall_clock,
          prediction_requests, prediction_response>>

serviceVars == <<db, now, logs, op, three_day_data, results, response>>
continuityVars == <<sorted_sessions, max_continuous>>
riskVars == <<day_record, current_risk>>
insightVars == <<window, insights>>
anomalyVars == <<features, anomalies>>
trackerVars == <<active_sessions, usage_buffer, clock, websockets,
                 session_calls, messages_received, tracker_result>>
trainingVars == <<ml_engine, predictor, requests, running>>
scoreVars == <<detected, confidence, cluster_history, stability,
               behavior_log, consistency>>
cacheVars == <<predictions, wall_clock, prediction_requests,
               prediction_response>>

----------------------------------------------------------------------------
(* Bounds of the model.                                                    *)

MaxLogs == 3          \* usage logs stored
MaxSessions == 4      \* sessions in a continuity run input
MaxWindow == 3        \* days in an insight window
MaxFeatureDays == 15  \* rows of a feature matrix
MaxCheckDays == 6     \* rows of a feature matrix with independent columns
MaxAssignments == 8   \* cluster assignments given to the stability score
MaxEntries == 8       \* entries of the behaviour data given to the consistency score
MaxRequests == 4      \* get_predictions requests
MaxPatterns == 5      \* patterns in a list given to the confidence score
MaxMessages == 2      \* usage_update messages after the initial history

----------------------------------------------------------------------------
(* Generic helpers.                                                        *)

RECURSIVE SumSeq(_)
SumSeq(s) == IF s = <<>> THEN 0 ELSE Head(s) + SumSeq(Tail(s))

\* d.get(key, default)
Get(d, key, default) == IF key \in DOMAIN d THEN d[key] ELSE default

Min(a, b) == IF a < b THEN a ELSE b
Max(a, b) == IF a > b THEN a ELSE b


\* s[-n:] of Python
LastN(s, n) == IF Len(s) <= n THEN s ELSE SubSeq(s, Len(s) - n + 1, Len(s))

\* s[:-n] of Python
DropLastN(s, n) == IF Len(s) <= n THEN <<>> ELSE SubSeq(s, 1, Len(s) - n)

\* (a - b).total_seconds() / 60 is Minutes(a) - Minutes(b)
Minutes(ts) == (ts.date * 24 + ts.hour) * 60 + ts.minute

None == [none |-> TRUE]

----------------------------------------------------------------------------
(* usage_tracker.py: UsageDataProcessor.                                   *)

\* s.get('duration', 0): every stored log carries a duration
Duration(s) == s.duration

Hour(s) == s.timestamp.hour

\* sum(s['duration'] for s in sessions)
SumDuration(sessions) ==
    SumSeq([i \in DOMAIN sessions |-> Duration(sessions[i])])


\* sorted(daily_sessions, key=lambda x: x['timestamp']): a stable sort
RECURSIVE InsertByTimestamp(_, _)
InsertByTimestamp(sorted, s) ==
    IF sorted = <<>> THEN <<s>>
    ELSE IF Minutes(s.timestamp) < Minutes(Head(sorted).timestamp)
         THEN <<s>> \o sorted
         ELSE <<Head(sorted)>> \o InsertByTimestamp(Tail(sorted), s)

RECURSIVE SortByTimestamp(_)
SortByTimestamp(sessions) ==
    IF sessions = <<>> THEN <<>>
    ELSE InsertByTimestamp(SortByTimestamp(DropLastN(sessions, 1)),
                           sessions[Len(sessions)])

\* the gap test written <= 5
ContinuesSessionLe(time_gap) == time_gap <= 5

\* if time_gap < 5: the session continues the current run
ContinuesSession(time_gap) == time_gap < 5

\* the loop of _calculate_max_continuous from index i on, carrying the two
\* locals max_continuous and current_continuous
RECURSIVE MaxContinuousLoop(_, _, _, _)
MaxContinuousLoop(sessions, i, maxc, current) ==
    IF i > Len(sessions) THEN Max(maxc, current)
    ELSE LET time_gap == Minutes(sessions[i].timestamp)
                         - Minutes(sessions[i - 1].timestamp)
         IN IF ContinuesSession(time_gap)
            THEN MaxContinuousLoop(sessions, i + 1, maxc,
                                   current + Duration(sessions[i]))
            ELSE MaxContinuousLoop(sessions, i + 1, Max(maxc, current),
                                   Duration(sessions[i]))

_calculate_max_continuous(sessions) ==
    IF sessions = <<>> THEN 0
    ELSE MaxContinuousLoop(sessions, 2, 0, Duration(sessions[1]))

\* a social set that overlaps the productivity set
social_apps_with_chrome ==
    {"Instagram", "TikTok", "WhatsApp", "Facebook", "Twitter", "Snapchat", "Chrome"}

social_apps == {"Instagram", "TikTok", "WhatsApp", "Facebook", "Twitter", "Snapchat"}
entertainment_apps == {"YouTube", "Netflix", "Spotify", "Games", "Twitch"}
productivity_apps == {"Chrome", "Email", "Calendar", "Notes", "Office"}

IsMorning(s) == 6 <= Hour(s) /\ Hour(s) < 12
IsAfternoon(s) == 12 <= Hour(s) /\ Hour(s) < 18
IsEvening(s) == 18 <= Hour(s) /\ Hour(s) < 22

\* the night bucket with the early-morning hours left out
IsNightLateOnly(s) == Hour(s) >= 22

IsNight(s) == Hour(s) >= 22 \/ Hour(s) < 6

aggregate_daily_data(raw_logs, target_date) ==
    LET OnDate(log) == log.timestamp.date = target_date
        daily_sessions == SelectSeq(raw_logs, OnDate)
        IsBinge(s) == Duration(s) > 45
        IsSocial(s) == s.app_name \in social_apps
        IsEntertainment(s) == s.app_name \in entertainment_apps
        IsProductivity(s) == s.app_name \in productivity_apps
        total_duration == SumDuration(daily_sessions)
        social_media_time == SumDuration(SelectSeq(daily_sessions, IsSocial))
        entertainment_time == SumDuration(SelectSeq(daily_sessions, IsEntertainment))
        productivity_time == SumDuration(SelectSeq(daily_sessions, IsProductivity))
        other_time == total_duration - social_media_time
                      - entertainment_time - productivity_time
    IN IF daily_sessions = <<>> THEN None
       ELSE [date |-> target_date,
             total_duration |-> total_duration,
             session_count |-> Len(daily_sessions),
             morning_usage |-> SumDuration(SelectSeq(daily_sessions, IsMorning)),
             afternoon_usage |-> SumDuration(SelectSeq(daily_sessions, IsAfternoon)),
             evening_usage |-> SumDuration(SelectSeq(daily_sessions, IsEvening)),
             night_usage |-> SumDuration(SelectSeq(daily_sessions, IsNight)),
             binge_sessions |-> Len(SelectSeq(daily_sessions, IsBinge)),
             max_continuous_usage |->
                 _calculate_max_continuous(SortByTimestamp(daily_sessions)),
             social_media_time |-> social_media_time,
             entertainment_time |-> entertainment_time,
             productivity_time |-> productivity_time,
             other_time |-> Max(0, other_time)]

\* the record get_three_day_data appends for a day without logs
MinimalData(target_date) ==
    [date |-> target_date,
     total_duration |-> 0,
     session_count |-> 0,
     morning_usage |-> 0,
     afternoon_usage |-> 0,
     evening_usage |-> 0,
     night_usage |-> 0,
     binge_sessions |-> 0,
     max_continuous_usage |-> 0,
     social_media_time |-> 0,
     entertainment_time |-> 0,
     productivity_time |-> 0,
     other_time |-> 0]

\* get_three_day_data that leaves out the days without logs
get_three_day_data_omitting(raw_logs, today) ==
    LET Day(k) == aggregate_daily_data(raw_logs, today - (3 - k))
        Present(d) == d # None
    IN SelectSeq([k \in 1..3 |-> Day(k)], Present)

\* for i in range(2, -1, -1): the k-th appended day is today - (3 - k)
get_three_day_data(raw_logs, today) ==
    [k \in 1..3 |->
        LET target_date == today - (3 - k)
            daily_data == aggregate_daily_data(raw_logs, target_date)
        IN IF daily_data # None THEN daily_data ELSE MinimalData(target_date)]

\* str(date)
DateStr(date) == [isoformat |-> date]

\* the record process_logs_to_daily starts a date with
EmptyDay(date) ==
    [date |-> DateStr(date),
     total_duration |-> 0,
     session_count |-> 0,
     app_usage |-> <<>>,
     night_usage |-> 0,
     morning_usage |-> 0,
     afternoon_usage |-> 0,
     evening_usage |-> 0,
     binge_sessions |-> 0,
     social_media_time |-> 0,
     entertainment_time |-> 0,
     productivity_time |-> 0,
     other_time |-> 0,
     max_continuous_usage |-> 0]

\* app_name.lower() of the app names the model uses
Lower(app_name) ==
    CASE app_name = "Instagram" -> "instagram"
      [] app_name = "WhatsApp" -> "whatsapp"
      [] app_name = "YouTube" -> "youtube"
      [] app_name = "Netflix" -> "netflix"
      [] app_name = "Chrome" -> "chrome"
      [] app_name = "Twitter" -> "twitter"
      [] app_name = "Documents" -> "documents"
      [] OTHER -> app_name

\* day_data['app_usage'][app_name] = day_data['app_usage'].get(app_name, 0) + d
\* (app_usage is kept as the sequence of <<app, minutes>> in insertion order)
AddAppUsage(app_usage, app_name, d) ==
    IF \E i \in 1..Len(app_usage) : app_usage[i][1] = app_name
    THEN [i \in 1..Len(app_usage) |->
             IF app_usage[i][1] = app_name
             THEN <<app_name, app_usage[i][2] + d>>
             ELSE app_usage[i]]
    ELSE Append(app_usage, <<app_name, d>>)

\* the body of the loop of process_logs_to_daily on one day's record
AddLogToDay(day_data, log) ==
    LET d == log.duration
        hour == log.timestamp.hour
        app == Lower(log.app_name)
        bucket == IF 22 <= hour \/ hour <= 6 THEN "night"
                  ELSE IF 6 < hour /\ hour <= 12 THEN "morning"
                  ELSE IF 12 < hour /\ hour <= 18 THEN "afternoon"
                  ELSE "evening"
        category ==
            IF app \in {"instagram", "facebook", "twitter", "snapchat", "tiktok"}
            THEN "social"
            ELSE IF app \in {"youtube", "netflix", "spotify", "games"}
            THEN "entertainment"
            ELSE IF app \in {"email", "calendar", "notes", "documents"}
            THEN "productivity"
            ELSE "other"
        Plus(name, field) == IF name THEN field + d ELSE field
    IN [day_data EXCEPT
           !.total_duration = @ + d,
           !.session_count = @ + 1,
           !.app_usage = AddAppUsage(@, log.app_name, d),
           !.night_usage = Plus(bucket = "night", @),
           !.morning_usage = Plus(bucket = "morning", @),
           !.afternoon_usage = Plus(bucket = "afternoon", @),
           !.evening_usage = Plus(bucket = "evening", @),
           !.social_media_time = Plus(category = "social", @),
           !.entertainment_time = Plus(category = "entertainment", @),
           !.productivity_time = Plus(category = "productivity", @),
           !.other_time = Plus(category = "other", @)]

\* the loop of process_logs_to_daily; daily_data is the dict, kept as the
\* sequence of <<date, day_data>> in insertion order
RECURSIVE ProcessLogsLoop(_, _)
ProcessLogsLoop(remaining, daily_data) ==
    IF remaining = <<>> THEN daily_data
    ELSE LET log == Head(remaining)
             date == log.timestamp.date
             known == \E i \in 1..Len(daily_data) : daily_data[i][1] = date
             with_date == IF known THEN daily_data
                          ELSE Append(daily_data, <<date, EmptyDay(date)>>)
             updated == [i \in 1..Len(with_date) |->
                            IF with_date[i][1] = date
                            THEN <<date, AddLogToDay(with_date[i][2], log)>>
                            ELSE with_date[i]]
         IN ProcessLogsLoop(Tail(remaining), updated)

\* list(daily_data.values())
process_logs_to_daily(logs_in) ==
    LET daily_data == ProcessLogsLoop(logs_in, <<>>)
    IN [i \in 1..Len(daily_data) |-> daily_data[i][2]]

\* UsageDataProcessor.generate_sample_data(days); the i of the source is k - 1
generate_sample_data(days) ==
    [k \in 1..days |->
        [date |-> [label |-> k],
         total_duration |-> 180 + ((k - 1) * 30),
         session_count |-> 15 + (k - 1),
         app_usage |-> << <<"Instagram", 60 + ((k - 1) * 10)>>,
                          <<"YouTube", 45 + ((k - 1) * 8)>>,
                          <<"WhatsApp", 30 + ((k - 1) * 5)>>,
                          <<"Chrome", 25 + ((k - 1) * 3)>>,
                          <<"TikTok", 20 + ((k - 1) * 4)>> >>,
         night_usage |-> 30 + ((k - 1) * 5),
         morning_usage |-> 40,
         afternoon_usage |-> 60,
         evening_usage |-> 50,
         binge_sessions |-> k - 1,
         social_media_time |-> 80 + ((k - 1) * 14),
         entertainment_time |-> 65 + ((k - 1) * 8),
         productivity_time |-> 25,
         other_time |-> 10,
         max_continuous_usage |-> 45 + ((k - 1) * 5)]]

----------------------------------------------------------------------------
(* addiction_predictor.py: AddictionRiskPredictor.                         *)

_get_risk_label(level) ==
    CASE level = 0 -> "Low"
      [] level = 1 -> "Moderate"
      [] level = 2 -> "High"
      [] level = 3 -> "Critical"
      [] OTHER -> "Unknown"

\* the risk score with the usage tiers added up instead of the highest only
RiskScoreCumulative(day) ==
    (IF day.total_duration > 360 THEN 3 ELSE 0)
    + (IF day.total_duration > 240 THEN 2 ELSE 0)
    + (IF day.total_duration > 120 THEN 1 ELSE 0)
    + (IF day.night_usage > 60 THEN 2 ELSE 0)
    + (IF day.binge_sessions > 3 THEN 2 ELSE 0)

\* the risk score with the night rule firing below the threshold
RiskScoreNightInverted(day) ==
    (IF day.total_duration > 360 THEN 3
     ELSE IF day.total_duration > 240 THEN 2
     ELSE IF day.total_duration > 120 THEN 1
     ELSE 0)
    + (IF day.night_usage < 60 THEN 2 ELSE 0)
    + (IF day.binge_sessions > 3 THEN 2 ELSE 0)

\* risk_score of _rule_based_prediction
RiskScore(day) ==
    LET daily_usage == day.total_duration
        night_usage == day.night_usage
        binge_sessions == day.binge_sessions
        after_usage == IF daily_usage > 360 THEN 3
                       ELSE IF daily_usage > 240 THEN 2
                       ELSE IF daily_usage > 120 THEN 1
                       ELSE 0
        after_night == IF night_usage > 60 THEN after_usage + 2 ELSE after_usage
    IN IF binge_sessions > 3 THEN after_night + 2 ELSE after_night

\* risk_probability min(risk_score / 7, 1.0) is kept in sevenths:
\* min(risk_score, 7) / 7
_rule_based_prediction(day) ==
    LET risk_score == RiskScore(day)
        risk_level == Min(risk_score, 3)
    IN [risk_level |-> risk_level,
        risk_probability_7ths |-> Min(risk_score, 7),
        risk_label |-> _get_risk_label(risk_level)]

\* the predictor of analyze_addiction_risk is never trained
predict_risk(day) == _rule_based_prediction(day)

TotalDuration(d) == d.total_duration
NightUsage(d) == d.night_usage
BingeSessions(d) == d.binge_sessions
SocialMediaTime(d) == d.social_media_time

\* sum of i * y[i+1] for the day indexes i = 0..n-1 of np.polyfit's x
RECURSIVE SumXY(_)
SumXY(y) == IF y = <<>> THEN 0
            ELSE (Len(y) - 1) * y[Len(y)] + SumXY(DropLastN(y, 1))

\* np.polyfit(range(n), y, 1)[0], the least-squares slope, is
\* SlopeNum(y) / SlopeDen(n) with SlopeDen(n) > 0 for n >= 2
SlopeNum(y) ==
    LET n == Len(y)
        sum_x == (n * (n - 1)) \div 2
    IN n * SumXY(y) - sum_x * SumSeq(y)

SlopeDen(n) ==
    LET sum_x == (n * (n - 1)) \div 2
        sum_xx == ((n - 1) * n * (2 * n - 1)) \div 6
    IN n * sum_xx - sum_x * sum_x

\* the trend insight taken from the change between the last two days only
TrendInsightLastStep(daily_usage) ==
    IF Len(daily_usage) >= 2
    THEN LET step == daily_usage[Len(daily_usage)]
                     - daily_usage[Len(daily_usage) - 1]
         IN IF step > 30
            THEN << [type |-> "warning", message |-> "Usage increasing",
                     severity |-> "high"] >>
            ELSE IF step < -30
            THEN << [type |-> "positive", message |-> "Usage decreasing",
                     severity |-> "low"] >>
            ELSE <<>>
    ELSE <<>>

\* the trend analysis of generate_insights
TrendInsight(daily_usage) ==
    IF Len(daily_usage) >= 2
    THEN LET num == SlopeNum(daily_usage)
             den == SlopeDen(Len(daily_usage))
         IN IF num > 30 * den
            THEN << [type |-> "warning", message |-> "Usage increasing",
                     severity |-> "high"] >>
            ELSE IF num < (-30) * den
            THEN << [type |-> "positive", message |-> "Usage decreasing",
                     severity |-> "low"] >>
            ELSE <<>>
    ELSE <<>>

\* np.mean(values) > threshold; the mean of no values is nan, which compares
\* False
MeanAbove(values, threshold) ==
    Len(values) > 0 /\ SumSeq(values) > threshold * Len(values)

\* messages are kept without the number formatted into them
generate_insights(data) ==
    LET night == IF MeanAbove([i \in DOMAIN data |-> NightUsage(data[i])], 60)
                 THEN << [type |-> "warning", message |-> "High night usage",
                          severity |-> "high"] >>
                 ELSE <<>>
        binge == IF SumSeq([i \in DOMAIN data |-> BingeSessions(data[i])]) > 5
                 THEN << [type |-> "alert", message |-> "binge sessions detected",
                          severity |-> "critical"] >>
                 ELSE <<>>
        social == IF MeanAbove([i \in DOMAIN data |-> SocialMediaTime(data[i])], 180)
                  THEN << [type |-> "warning", message |-> "High social media usage",
                           severity |-> "moderate"] >>
                  ELSE <<>>
    IN TrendInsight([i \in DOMAIN data |-> TotalDuration(data[i])]) \o night \o binge \o social

\* 'night' in message.lower(), 'binge' in message.lower()
MentionsNight(message) == message = "High night usage"
MentionsBinge(message) == message = "binge sessions detected"

_generate_recommendations(risk_data, found) ==
    LET limits == IF risk_data.risk_level >= 2
                  THEN <<"Set daily usage limits (max 3-4 hours)",
                         "Enable app timers for social media",
                         "Schedule device-free hours">>
                  ELSE <<>>
        night == IF \E i \in 1..Len(found) :
                        found[i].type = "warning" /\ MentionsNight(found[i].message)
                 THEN <<"Avoid screens 1 hour before bedtime",
                        "Enable night mode/blue light filter">>
                 ELSE <<>>
        binge == IF \E i \in 1..Len(found) : MentionsBinge(found[i].message)
                 THEN <<"Take 10-min breaks every hour",
                        "Use focus mode during work/study">>
                 ELSE <<>>
        recommendations == limits \o night \o binge
    IN IF recommendations = <<>>
       THEN <<"Maintain current healthy usage patterns">>
       ELSE recommendations

\* visualize_comparison plots the window against the three labels
\* days = ['Day 1', 'Day 2', 'Day 3']: Axes.plot(days, risk_levels) raises
\* ValueError for a window of another length, and the pie chart of a day
\* whose four category times are all 0 divides by their sum, which the
\* plotting library may or may not refuse
VisualizationOutcomes(data) ==
    IF Len(data) # 3 THEN {"raised"}
    ELSE IF \E i \in 1..3 : data[i].social_media_time + data[i].entertainment_time
                            + data[i].productivity_time + data[i].other_time = 0
    THEN {"saved", "raised"}
    ELSE {"saved"}

Raised == [raised |-> TRUE]

\* analyze_addiction_risk(user_data), for one outcome of the visualization;
\* user_data[-1] of an empty window raises IndexError
analyze_addiction_risk(user_data, viz) ==
    IF user_data = <<>> \/ viz = "raised" THEN Raised
    ELSE LET found == generate_insights(user_data)
             risk == predict_risk(user_data[Len(user_data)])
         IN [current_risk |-> risk,
             insights |-> found,
             visualization |-> "addiction_analysis.png",
             recommendations |-> _generate_recommendations(risk, found)]

----------------------------------------------------------------------------
(* behavior_analyzer.py: BehaviorAnalyzer.                                 *)

\* date.weekday() of a day number
Weekday(date) == date % 7

\* a quotient a / b of the source, kept exact as [num, den]; the guarded
\* forms (x / y if y > 0 else 0) give 0 / 1
Ratio(a, b) == [num |-> a, den |-> b]
GuardedRatio(a, b) == IF b > 0 THEN Ratio(a, b) ELSE Ratio(0, 1)

\* stored logs carry no 'interactions', so log.get('interactions', 1) is 1
_convert_logs_to_behavior_data(usage_logs) ==
    [i \in 1..Len(usage_logs) |->
        [timestamp |-> usage_logs[i].timestamp,
         app_name |-> usage_logs[i].app_name,
         duration |-> usage_logs[i].duration,
         interactions |-> 1,
         day_of_week |-> Weekday(usage_logs[i].timestamp.date),
         hour |-> usage_logs[i].timestamp.hour]]

\* daily_data of _extract_behavioral_features: the defaultdict, kept as the
\* sequence of <<day_key, sessions>> in insertion order
RECURSIVE GroupByDay(_, _)
GroupByDay(remaining, daily_data) ==
    IF remaining = <<>> THEN daily_data
    ELSE LET entry == Head(remaining)
             day_key == entry.timestamp.date
             known == \E i \in 1..Len(daily_data) : daily_data[i][1] = day_key
             with_day == IF known THEN daily_data
                         ELSE Append(daily_data, <<day_key, <<>> >>)
             updated == [i \in 1..Len(with_day) |->
                            IF with_day[i][1] = day_key
                            THEN <<day_key, Append(with_day[i][2], entry)>>
                            ELSE with_day[i]]
         IN GroupByDay(Tail(remaining), updated)

\* one row of the feature matrix, for daily_data.items() entry <<day, sessions>>
FeatureRow(day, sessions) ==
    LET Interactions(e) == e.interactions
        EntryHour(e) == e.hour
        InMorning(e) == 6 <= e.hour /\ e.hour < 12
        InAfternoon(e) == 12 <= e.hour /\ e.hour < 18
        InEvening(e) == 18 <= e.hour /\ e.hour < 22
        InNight(e) == e.hour >= 22 \/ e.hour < 6
        IsSocial(e) == e.app_name \in {"Instagram", "TikTok", "WhatsApp"}
        IsEntertainment(e) ==
            e.app_name \in {"YouTube", "Netflix", "Spotify", "Games"}
        IsLong(e) == e.duration > 30
        total_duration == SumDuration(sessions)
        total_interactions == SumSeq([i \in DOMAIN sessions |-> Interactions(sessions[i])])
        session_count == Len(sessions)
    IN [total_duration |-> total_duration,
        session_count |-> session_count,
        unique_apps |-> Cardinality({sessions[i].app_name : i \in 1..Len(sessions)}),
        avg_session_duration |-> GuardedRatio(total_duration, session_count),
        interaction_rate |-> GuardedRatio(total_interactions, total_duration),
        morning_usage |-> Len(SelectSeq(sessions, InMorning)),
        afternoon_usage |-> Len(SelectSeq(sessions, InAfternoon)),
        evening_usage |-> Len(SelectSeq(sessions, InEvening)),
        night_usage |-> Len(SelectSeq(sessions, InNight)),
        social_time |-> SumDuration(SelectSeq(sessions, IsSocial)),
        entertainment_time |-> SumDuration(SelectSeq(sessions, IsEntertainment)),
        binge_score |-> GuardedRatio(Len(SelectSeq(sessions, IsLong)), session_count),
        hours_used |-> Cardinality({sessions[i].hour : i \in 1..Len(sessions)}),
        weekday |-> Weekday(day)]

\* the rows follow daily_data.items(), the order in which the days first
\* appear in behavior_data
_extract_behavioral_features(behavior_data) ==
    LET daily_data == GroupByDay(behavior_data, <<>>)
    IN [i \in 1..Len(daily_data) |-> FeatureRow(daily_data[i][1], daily_data[i][2])]

\* the day of each row of the feature matrix (the keys of daily_data)
FeatureDays(behavior_data) ==
    LET daily_data == GroupByDay(behavior_data, <<>>)
    IN [i \in 1..Len(daily_data) |-> daily_data[i][1]]

FeatureTotal(row) == row.total_duration
FeatureNight(row) == row.night_usage
FeatureBinge(row) == row.binge_score

RECURSIVE SumRatios(_)
SumRatios(rs) ==
    IF rs = <<>> THEN Ratio(0, 1)
    ELSE LET rest == SumRatios(Tail(rs))
             r == Head(rs)
         IN Ratio(r.num * rest.den + rest.num * r.den, r.den * rest.den)

\* features[-14:] replaced by the whole matrix
RecentFeaturesUntruncated(feature_rows) == feature_rows

\* recent_features = features[-14:]
RecentFeatures(feature_rows) == LastN(feature_rows, 14)

\* len(features) < 5
TooFewDays(feature_rows) == Len(feature_rows) < 5

\* recent_avg >= historical_avg * 2
SpikeIsHighFromDouble(recent_sum, historical_sum, h) ==
    recent_sum * h >= 6 * historical_sum

\* recent_avg > historical_avg * 2, on the sums
SpikeIsHigh(recent_sum, historical_sum, h) ==
    recent_sum * h > 6 * historical_sum

\* _detect_behavioral_anomalies; with s3 the sum of the last 3 values, sH
\* the sum of the earlier ones and h their count,
\*   mean(last 3) > mean(earlier) * 1.5   is   2 * s3 * h > 9 * sH
\*   mean(last 3) > mean(earlier) * 2     is   s3 * h > 6 * sH
\*   mean(last 3 binge scores) > 0.3      is   10 * sum > 9
\* the description keeps recent_avg / historical_avg as [num, den]
_detect_behavioral_anomalies(feature_rows) ==
    IF TooFewDays(feature_rows) THEN <<>>
    ELSE
    LET recent_features == RecentFeatures(feature_rows)
        usage_trend == [i \in DOMAIN recent_features |-> FeatureTotal(recent_features[i])]
        night_usage == [i \in DOMAIN recent_features |-> FeatureNight(recent_features[i])]
        binge_scores == [i \in DOMAIN recent_features |-> FeatureBinge(recent_features[i])]
        h == Len(recent_features) - 3
        recent_sum == SumSeq(LastN(usage_trend, 3))
        historical_sum == SumSeq(DropLastN(usage_trend, 3))
        spike ==
            IF Len(usage_trend) > 3 /\ 2 * recent_sum * h > 9 * historical_sum
            THEN << [type |-> "usage_spike",
                     severity |-> IF SpikeIsHigh(recent_sum, historical_sum, h)
                                  THEN "high" ELSE "medium",
                     description |-> Ratio(recent_sum * h, 3 * historical_sum)] >>
            ELSE <<>>
        night ==
            IF SumSeq(LastN(night_usage, 3)) * h
               > 6 * SumSeq(DropLastN(night_usage, 3))
            THEN << [type |-> "night_usage_increase", severity |-> "medium",
                     description |->
                         [text |-> "Significant increase in late-night usage"]] >>
            ELSE <<>>
        binge_sum == SumRatios(LastN(binge_scores, 3))
        binge ==
            IF 10 * binge_sum.num > 9 * binge_sum.den
            THEN << [type |-> "binge_behavior", severity |-> "high",
                     description |->
                         [text |-> "Increased binge usage patterns detected"]] >>
            ELSE <<>>
    IN spike \o night \o binge

cluster_names == <<"Light User", "Heavy User", "Binge User", "Balanced User">>

\* every assignment taken as recent
RecentClustersAll(clusters) == clusters

\* recent_clusters = clusters[-7:]
RecentClusters(clusters) == LastN(clusters, 7)

\* most_common[1] / len(recent_clusters) of the last 7 assignments, kept as
\* [num, den]; 0.5 below 7 assignments
_calculate_cluster_stability(clusters) ==
    IF Len(clusters) < 7 THEN Ratio(1, 2)
    ELSE LET recent_clusters == RecentClusters(clusters)
             Count(c) == Cardinality({i \in DOMAIN recent_clusters :
                                         recent_clusters[i] = c})
             best == CHOOSE c \in 0..3 : \A d \in 0..3 : Count(c) >= Count(d)
         IN Ratio(Count(best), Len(recent_clusters))

\* _perform_clustering, given the assignment KMeans(n_clusters=4).fit_predict
\* returned for the rows (cluster_stats is left out of the result)
_perform_clustering(feature_rows, clusters) ==
    IF Len(feature_rows) < 4
    THEN [cluster |-> -1, cluster_name |-> "Insufficient data"]
    ELSE LET user_cluster == clusters[Len(clusters)]
         IN [cluster |-> user_cluster,
             cluster_name |-> cluster_names[user_cluster + 1],
             stability |-> _calculate_cluster_stability(clusters)]

\* daily_totals of _calculate_pattern_consistency: day -> summed duration
DailyTotals(behavior_data) ==
    LET days == {behavior_data[i].timestamp.date : i \in 1..Len(behavior_data)}
    IN [day \in days |->
           SumDuration(SelectSeq(behavior_data,
                                 LAMBDA entry : entry.timestamp.date = day))]

\* the sum of totals[day] over days, and of the squares
RECURSIVE SumTotals(_, _)
SumTotals(totals, days) ==
    IF days = {} THEN 0
    ELSE LET day == CHOOSE d \in days : TRUE
         IN totals[day] + SumTotals(totals, days \ {day})

RECURSIVE SumSquares(_, _)
SumSquares(totals, days) ==
    IF days = {} THEN 0
    ELSE LET day == CHOOSE d \in days : TRUE
         IN totals[day] * totals[day] + SumSquares(totals, days \ {day})

\* a score whole - sqrt(root), both kept exact as [num, den]
ScoreValue(whole, root) == [whole |-> whole, root |-> root]

\* _calculate_pattern_consistency.  With n days, S the sum of the daily
\* totals and Q the sum of their squares, np.mean is S / n, np.std is
\* sqrt(n * Q - S * S) / n, so cv * cv = (n * Q - S * S) / (S * S), and
\* max(0, 1 - cv) is 0 when that is 1 or more
_calculate_pattern_consistency(behavior_data) ==
    LET daily_totals == DailyTotals(behavior_data)
        n == Cardinality(DOMAIN daily_totals)
        S == SumTotals(daily_totals, DOMAIN daily_totals)
        Q == SumSquares(daily_totals, DOMAIN daily_totals)
    IN IF n < 7 THEN ScoreValue(Ratio(1, 2), Ratio(0, 1))
       ELSE IF S = 0 THEN ScoreValue(Ratio(0, 1), Ratio(0, 1))
       ELSE IF n * Q - S * S >= S * S THEN ScoreValue(Ratio(0, 1), Ratio(0, 1))
       ELSE ScoreValue(Ratio(1, 1), Ratio(n * Q - S * S, S * S))

\* the assignments fit_predict may return: KMeans starts from random
\* centroids
ClusterAssignments(feature_rows) ==
    IF Len(feature_rows) < 4 THEN {<<>>}
    ELSE [1..Len(feature_rows) -> 0..3]

----------------------------------------------------------------------------
(* database_mongo.py: MongoDatabase, and the handlers of main.py.          *)

Event(user_id, date, hour, minute, app_name, duration) ==
    [user_id |-> user_id,
     app_name |-> app_name,
     duration |-> duration,
     timestamp |-> [date |-> date, hour |-> hour, minute |-> minute]]

\* the usage events a client may post: every time-of-day bucket and its
\* boundary hours, days inside and outside the 3-day and 7-day windows, apps
\* of every category, durations around the binge threshold
UsageEvents ==
    { Event("u1", 8, 6, 0, "Instagram", 50),
      Event("u1", 8, 6, 0, "Chrome", 10),
      Event("u1", 8, 12, 0, "WhatsApp", 45),
      Event("u1", 9, 13, 0, "YouTube", 46),
      Event("u1", 9, 23, 30, "Instagram", 50),
      Event("u1", 10, 2, 0, "Netflix", 10),
      Event("u1", 10, 18, 0, "Documents", 50),
      Event("u1", 10, 22, 0, "Chrome", 0),
      Event("u1", 2, 9, 0, "Instagram", 50),
      Event("u2", 10, 9, 0, "Instagram", 50) }

Users == {"u1", "u2"}

\* the moments at which the service runs
NowChoices == { [date |-> 10, hour |-> 23, minute |-> 0],
                [date |-> 11, hour |-> 8, minute |-> 0] }

\* the lists that hold exactly the documents of a bag
Listings(bag) ==
    LET docs == BagToSet(bag)
        n == BagCardinality(bag)
    IN { s \in [1..n -> docs] :
           \A d \in docs : Cardinality({i \in 1..n : s[i] = d}) = CopiesIn(d, bag) }


IsSortedNewestFirst(s) ==
    \A i \in 1..(Len(s) - 1) :
        Minutes(s[i].timestamp) >= Minutes(s[i + 1].timestamp)

\* the results get_usage_logs(user_id, days) may return: the matching
\* documents newest first (.sort('timestamp', -1)), documents of one
\* timestamp in any order
get_usage_logs(user_id, days) ==
    IF db = "None" THEN {<<>>}
    ELSE LET start_date == Minutes(now) - days * 24 * 60
             Matches(log) == log.user_id = user_id
                             /\ Minutes(log.timestamp) >= start_date
             docs == {d \in BagToSet(logs) : Matches(d)}
             found == [d \in docs |-> CopiesIn(d, logs)]
         IN {s \in Listings(found) : IsSortedNewestFirst(s)}

\* s[:n] of Python
FirstN(s, n) == SubSeq(s, 1, Min(n, Len(s)))

\* gemini_service.py: GeminiInsightsService.  Texts are strings; a number
\* formatted into a text is written with ToString.

\* the app names of day.get('app_usage', {}), day after day
RECURSIVE AppNames(_)
AppNames(usage_data) ==
    IF usage_data = <<>> THEN <<>>
    ELSE LET day_apps == Get(usage_data[Len(usage_data)], "app_usage", <<>>)
         IN AppNames(DropLastN(usage_data, 1))
            \o [i \in DOMAIN day_apps |-> day_apps[i][1]]

\* day.get('app_usage', {}).get(app, 0)
AppTime(day, app) ==
    LET day_apps == Get(day, "app_usage", <<>>)
    IN IF \E i \in DOMAIN day_apps : day_apps[i][1] = app
       THEN day_apps[CHOOSE i \in DOMAIN day_apps : day_apps[i][1] = app][2]
       ELSE 0

\* app_usage[app] = app_usage.get(app, 0) + time over all days: the apps in
\* the order they first appear, each with its total time
AppTotals(usage_data) ==
    LET names == AppNames(usage_data)
        first == SelectSeq([i \in DOMAIN names |-> i],
                           LAMBDA i : \A j \in 1..(i - 1) : names[j] # names[i])
    IN [k \in DOMAIN first |->
           <<names[first[k]],
             SumSeq([d \in DOMAIN usage_data |->
                        AppTime(usage_data[d], names[first[k]])])>>]

\* sorted(app_usage.items(), key=lambda x: x[1], reverse=True): stable, so
\* an item comes after the items with more time and after the earlier items
\* with the same time
SortByTimeDesc(items) ==
    LET Before(i) == {j \in DOMAIN items :
                         \/ items[j][2] > items[i][2]
                         \/ items[j][2] = items[i][2] /\ j < i}
    IN [k \in DOMAIN items |->
           items[CHOOSE i \in DOMAIN items : Cardinality(Before(i)) = k - 1]]

TopApps(usage_data) == FirstN(SortByTimeDesc(AppTotals(usage_data)), 5)

\* f"{num / den:.0f}": the quotient rounded to the nearest integer, a tie
\* to the even one
FormatRounded(num, den) ==
    LET q == num \div den
        r == num % den
    IN ToString(IF 2 * r > den \/ (2 * r = den /\ q % 2 = 1) THEN q + 1 ELSE q)

_fallback_insights(usage_data, top_apps) ==
    LET total == SumSeq([i \in DOMAIN usage_data |-> TotalDuration(usage_data[i])])
        days == Len(usage_data)
        high == total > 240 * days
        top_app == top_apps[1][1]
        top_time == top_apps[1][2]
        found ==
            (IF high
             THEN <<"High usage: " \o FormatRounded(total, days) \o "min/day detected">>
             ELSE <<>>)
            \o (IF top_apps # <<>>
                THEN <<top_app \o ": " \o ToString(top_time) \o "min - most used app">>
                ELSE <<>>)
        precautions ==
            (IF high THEN <<"Set daily limits under 4 hours">> ELSE <<>>)
            \o (IF Len(top_apps) > 1 THEN <<"Take breaks every 45 minutes">> ELSE <<>>)
        recommendations ==
            (IF top_apps # <<>>
             THEN <<"Limit " \o top_app \o " to 30min sessions">> ELSE <<>>)
            \o (IF Len(top_apps) > 1 THEN <<"Use app timers for top 3 apps">> ELSE <<>>)
        risk_factors == IF high THEN <<"Excessive screen time">> ELSE <<>>
    IN [ai_insights |-> FirstN(found, 2),
        precautions |-> FirstN(precautions, 2),
        recommendations |-> FirstN(recommendations, 2),
        risk_factors |-> FirstN(risk_factors, 1)]

\* JSON objects the model may answer with: the shape the prompt asks for,
\* one with more items than are kept, and one without any of the keys
GeminiReplies ==
    { [insights |-> <<"observation1", "observation2">>,
       precautions |-> <<"tip1", "tip2">>,
       recommendations |-> <<"action1", "action2">>,
       risk_factors |-> <<"risk1">>],
      [insights |-> <<"observation1", "observation2", "observation3",
                      "observation4">>,
       precautions |-> <<"tip1">>,
       recommendations |-> <<"action1">>,
       risk_factors |-> <<"risk1", "risk2", "risk3">>],
      [summary |-> "fine"] }

\* what GeminiInsightsService.generate_insights may return for usage_data:
\* the parsed answer of the model, or the fallback when the request or the
\* parsing raised (generated_at is not kept)
GeminiInsightsService_generate_insights(usage_data) ==
    { [ai_insights |-> FirstN(Get(result, "insights", <<>>), 3),
       precautions |-> FirstN(Get(result, "precautions", <<>>), 3),
       recommendations |-> FirstN(Get(result, "recommendations", <<>>), 3),
       risk_factors |-> FirstN(Get(result, "risk_factors", <<>>), 2)] :
      result \in GeminiReplies }
    \cup { _fallback_insights(usage_data, TopApps(usage_data)) }

\* the response of the except branch of get_addiction_insights
FallbackResponse(user_id) ==
    [status |-> "success",
     user_id |-> user_id,
     risk_assessment |-> [level |-> 1, label |-> "Moderate",
                          probability |-> "0.6"],
     insights |-> << [message |-> "Daily usage patterns analyzed",
                      severity |-> "info", type |-> "ai_insight"] >>,
     recommendations |-> <<"Set daily usage limits", "Take regular breaks">>,
     risk_factors |-> <<"Screen time monitoring needed">>,
     three_day_summary |-> <<>>,
     trend |-> "stable"]

\* response_data of get_addiction_insights; ai_insights is what
\* gemini_service.generate_insights returned
ResponseData(user_id, data, analysis, ai_insights) ==
    LET DaySummary(d) ==
            [date |-> d.date,
             total_minutes |-> d.total_duration,
             risk_level |-> Min(3, d.total_duration \div 120)]
        direction ==
            IF Len(data) >= 3 /\ data[3].total_duration > data[1].total_duration
            THEN "increasing"
            ELSE IF Len(data) >= 3
                    /\ data[3].total_duration < data[1].total_duration
            THEN "decreasing"
            ELSE "stable"
    IN [status |-> "success",
        user_id |-> user_id,
        risk_assessment |->
            [level |-> analysis.current_risk.risk_level,
             label |-> analysis.current_risk.risk_label,
             probability_7ths |-> analysis.current_risk.risk_probability_7ths],
        insights |->
            [i \in DOMAIN ai_insights.ai_insights |->
                [message |-> ai_insights.ai_insights[i],
                 severity |-> "info", type |-> "ai_insight"]]
            \o [i \in DOMAIN ai_insights.precautions |->
                  [message |-> ai_insights.precautions[i],
                   severity |-> "warning", type |-> "precaution"]],
        recommendations |-> ai_insights.recommendations,
        risk_factors |-> ai_insights.risk_factors,
        three_day_summary |-> IF Len(data) >= 3
                              THEN [i \in 1..3 |-> DaySummary(data[i])]
                              ELSE <<>>,
        trend |-> direction]

----------------------------------------------------------------------------
(* real_time_tracker.py: RealTimeTracker.  Its timestamps are seconds.     *)

\* deque(maxlen=1000)
usage_buffer_maxlen == 1000

\* f"{user_id}_{app_name}"
session_key(user_id, app_name) == user_id \o "_" \o app_name

NewSession(timestamp) ==
    [start_time |-> timestamp, total_time |-> 0, interactions |-> 0]

\* a session created on every event
SessionAtAlwaysNew(sessions, key, timestamp) == NewSession(timestamp)

\* if session_key not in self.active_sessions: ...; the session of the key
SessionAt(sessions, key, timestamp) ==
    IF key \in DOMAIN sessions THEN sessions[key] ELSE NewSession(timestamp)

\* session["interactions"] += 1; session["total_time"] = elapsed seconds
UpdatedSession(sessions, key, timestamp) ==
    LET session == SessionAt(sessions, key, timestamp)
    IN [session EXCEPT !.interactions = @ + 1,
                       !.total_time = timestamp - session.start_time]

\* a call that replaces the map by the one session it touched
WithSessionOnly(sessions, key, session) == key :> session

WithSession(sessions, key, session) ==
    [k \in DOMAIN sessions \cup {key} |->
        IF k = key THEN session ELSE sessions[k]]

BufferEntry(user_id, app_name, timestamp, session) ==
    [user_id |-> user_id,
     app_name |-> app_name,
     timestamp |-> timestamp,
     session_duration |-> session.total_time,
     interactions |-> session.interactions]

\* an append that never evicts
DequeAppendUnbounded(buffer, entry) == Append(buffer, entry)

\* deque.append on a deque with maxlen: a full deque drops its leftmost item
DequeAppend(buffer, entry) ==
    IF Len(buffer) >= usage_buffer_maxlen
    THEN Append(Tail(buffer), entry)
    ELSE Append(buffer, entry)

\* entry["timestamp"].hour
EntryHour(entry) == (entry.timestamp \div 3600) % 24

\* sum(entry["session_duration"] for entry in usage_data[lo..hi]); the sum
\* of the two halves, to keep the evaluation shallow on a full buffer
RECURSIVE SumSessionDuration(_, _, _)
SumSessionDuration(usage_data, lo, hi) ==
    IF lo > hi THEN 0
    ELSE IF lo = hi THEN usage_data[lo].session_duration
    ELSE LET mid == (lo + hi) \div 2
         IN SumSessionDuration(usage_data, lo, mid)
            + SumSessionDuration(usage_data, mid + 1, hi)

\* the entries the binge check reads: the whole list
BingeWindowWhole(usage_data) == usage_data

\* recent_data = usage_data[-20:]
BingeWindow(usage_data) == LastN(usage_data, 20)

\* PatternDetector._detect_binge_pattern; total_time / 60 kept as [num, den]
_detect_binge_pattern(usage_data) ==
    LET recent_data == BingeWindow(usage_data)
        total_time == SumSessionDuration(recent_data, 1, Len(recent_data))
    IN IF Len(recent_data) < 5 THEN None
       ELSE IF total_time > 3600
       THEN [type |-> "binge_usage",
             severity |-> IF total_time > 7200 THEN "high" ELSE "medium",
             duration |-> Ratio(total_time, 60)]
       ELSE None

\* hour_usage[hour] of _detect_time_patterns
HourUsage(usage_data, hour) ==
    LET in_hour == SelectSeq(usage_data, LAMBDA entry : EntryHour(entry) = hour)
    IN SumSessionDuration(in_hour, 1, Len(in_hour))

\* the position at which hour became a key of hour_usage
FirstEntryOfHour(usage_data, hour) ==
    CHOOSE i \in 1..Len(usage_data) :
        /\ EntryHour(usage_data[i]) = hour
        /\ \A j \in 1..(i - 1) : EntryHour(usage_data[j]) # hour

\* PatternDetector._detect_time_patterns: max(hour_usage, key=hour_usage.get)
\* is the first key, in insertion order, with the largest value
_detect_time_patterns(usage_data) ==
    LET hours == {EntryHour(usage_data[i]) : i \in 1..Len(usage_data)}
        hour_usage == [hour \in hours |-> HourUsage(usage_data, hour)]
        largest == {hour \in hours :
                       \A other \in hours : hour_usage[hour] >= hour_usage[other]}
        peak_hour == CHOOSE hour \in largest :
                         \A other \in largest :
                             FirstEntryOfHour(usage_data, hour)
                                 <= FirstEntryOfHour(usage_data, other)
    IN IF hours = {} THEN None
       ELSE IF hour_usage[peak_hour] > 60 * 60
       THEN [type |-> "peak_usage_time",
             peak_hour |-> peak_hour,
             peak_usage |-> Ratio(hour_usage[peak_hour], 60)]
       ELSE None

\* PatternDetector._detect_app_switching
_detect_app_switching(usage_data) ==
    LET recent_data == LastN(usage_data, 10)
        unique_apps ==
            Cardinality({recent_data[i].app_name : i \in 1..Len(recent_data)})
    IN IF Len(recent_data) < 5 THEN None
       ELSE IF unique_apps >= 5
       THEN [type |-> "app_switching", app_count |-> unique_apps]
       ELSE None

\* pattern.get("severity")
Severity(pattern) == Get(pattern, "severity", "none")

\* the severity terms of the confidence, in tenths
RECURSIVE SeverityTenths(_)
SeverityTenths(patterns) ==
    IF patterns = <<>> THEN 0
    ELSE (IF Severity(Head(patterns)) = "high" THEN 2
          ELSE IF Severity(Head(patterns)) = "medium" THEN 1
          ELSE 0)
         + SeverityTenths(Tail(patterns))

\* the last min(confidence, 1.0) left out
CapConfidenceNone(tenths) == tenths

\* min(confidence, 1.0), in tenths
CapConfidence(tenths) == Min(tenths, 10)

\* PatternDetector._calculate_pattern_confidence, in tenths: 0.3 a pattern
\* capped at 1.0, then 0.2 or 0.1 by severity, capped at 1.0
_calculate_pattern_confidence(patterns) ==
    IF patterns = <<>> THEN 0
    ELSE CapConfidence(Min(Len(patterns) * 3, 10) + SeverityTenths(patterns))

\* len(usage_data) <= 10
TooFewEntriesLe(usage_data) == Len(usage_data) <= 10

\* len(usage_data) < 10
TooFewEntries(usage_data) == Len(usage_data) < 10

\* PatternDetector.detect_patterns
detect_patterns(usage_data) ==
    IF TooFewEntries(usage_data) THEN [patterns |-> <<>>, confidence |-> 0]
    ELSE LET found == << _detect_binge_pattern(usage_data),
                         _detect_time_patterns(usage_data),
                         _detect_app_switching(usage_data) >>
             patterns == SelectSeq(found, LAMBDA pattern : pattern # None)
         IN [patterns |-> patterns,
             confidence |-> _calculate_pattern_confidence(patterns)]

\* AlertSystem.check_alerts at hour current_hour (the messages are left out;
\* a binge alert keeps the duration its message prints)
check_alerts(session_info, patterns, current_hour) ==
    LET binge == SelectSeq(patterns.patterns,
                           LAMBDA pattern : pattern.type = "binge_usage")
    IN (IF session_info.total_time > 1800
        THEN << [type |-> "long_session", action |-> "take_break",
                 priority |-> "medium"] >>
        ELSE <<>>)
       \o [i \in 1..Len(binge) |->
              [type |-> "binge_detected", duration |-> binge[i].duration,
               action |-> "limit_usage", priority |-> "high"]]
       \o (IF current_hour >= 22
           THEN << [type |-> "late_night_usage", action |-> "wind_down",
                    priority |-> "medium"] >>
           ELSE <<>>)

\* RealTimeTracker.process_usage at time timestamp: the tracker's two
\* structures after the call, and what it returns (real_time_metrics, which
\* changes nothing, is left out).  The call has no suspension point and its
\* readings of datetime.now() are taken as one instant.
RealTimeTracker_process_usage(sessions, buffer, usage_data, timestamp) ==
    LET user_id == Get(usage_data, "user_id", "default")
        app_name == Get(usage_data, "app_name", "unknown")
        key == session_key(user_id, app_name)
        session == UpdatedSession(sessions, key, timestamp)
        appended == DequeAppend(buffer,
                        BufferEntry(user_id, app_name, timestamp, session))
        patterns == detect_patterns(appended)
    IN [active_sessions |-> WithSession(sessions, key, session),
        usage_buffer |-> appended,
        session_key |-> key,
        session_info |-> session,
        patterns |-> patterns,
        alerts |-> check_alerts(session, patterns,
                                (timestamp \div 3600) % 24)]

\* the history variable after one more call for key at timestamp
CallRecorded(history, key, timestamp) ==
    [k \in DOMAIN history \cup {key} |->
        IF k # key THEN history[k]
        ELSE IF key \in DOMAIN history
             THEN [history[key] EXCEPT !.completed = @ + 1]
             ELSE [completed |-> 1, first |-> timestamp]]

\* the tracker after n calls one second apart from time start on: one
\* event of u2 in Chrome, then n - 1 events of u1 in Instagram
TrackerAfter(n, start) ==
    LET first == [start_time |-> start, total_time |-> 0, interactions |-> 1]
        rest == [start_time |-> start + 1, total_time |-> n - 2,
                 interactions |-> n - 1]
        Entry(i) ==
            IF i = 1
            THEN BufferEntry("u2", "Chrome", start, first)
            ELSE BufferEntry("u1", "Instagram", start + i - 1,
                             [rest EXCEPT !.total_time = i - 2,
                                          !.interactions = i - 1])
    IN IF n = 0
       THEN [active_sessions |-> <<>>, usage_buffer |-> <<>>,
             clock |-> start, session_calls |-> <<>>]
       ELSE [active_sessions |->
                 IF n = 1 THEN session_key("u2", "Chrome") :> first
                 ELSE session_key("u2", "Chrome") :> first
                      @@ session_key("u1", "Instagram") :> rest,
             usage_buffer |-> [i \in 1..n |-> Entry(i)],
             clock |-> start + n - 1,
             session_calls |->
                 IF n = 1
                 THEN session_key("u2", "Chrome")
                          :> [completed |-> 1, first |-> start]
                 ELSE session_key("u2", "Chrome")
                          :> [completed |-> 1, first |-> start]
                      @@ session_key("u1", "Instagram")
                          :> [completed |-> n - 1, first |-> start + 1]]

----------------------------------------------------------------------------
(* ml_engine.py, usage_predictor.py: lazy training of the models.          *)

\* the estimators _train_models fits, in the order it fits them
MLEngineModels == <<"usage_model", "anomaly_detector", "behavior_clusterer">>
UsagePredictorModels == <<"hourly_model", "daily_model", "app_model">>

\* self.is_trained = False, nothing fitted
Untrained == [is_trained |-> FALSE, fitted |-> {}, trainings |-> 0]

\* _train_models is entered
TrainingEntered(engine) == [engine EXCEPT !.trainings = @ + 1]

\* model.fit(...)
Fitted(engine, model) == [engine EXCEPT !.fitted = @ \cup {model}]

\* self.is_trained = True
MarkedTrained(engine) == [engine EXCEPT !.is_trained = TRUE]

RECURSIVE FittedAll(_, _)
FittedAll(engine, models) ==
    IF models = <<>> THEN engine
    ELSE FittedAll(Fitted(engine, Head(models)), Tail(models))

\* the engine after a whole _train_models
Trained(engine, models) ==
    MarkedTrained(FittedAll(TrainingEntered(engine), models))

\* the engine after an uninterrupted MLEngine.process_usage
MLEngine_process_usage(engine) ==
    IF engine.is_trained THEN engine ELSE Trained(engine, MLEngineModels)

\* every await suspends the coroutine
SuspendsAlways(awaited) == TRUE

\* whether awaiting it suspends the coroutine and lets the event loop run
\* another one: the database calls wait for I/O; _train_models and
\* _predict_app_usage contain no await of their own and run to their end
Suspends(awaited) ==
    awaited \in {"save_usage_log", "get_prediction", "save_prediction"}

\* the predictor after an uninterrupted UsagePredictor.predict_usage
UsagePredictor_predict_usage(engine) ==
    IF engine.is_trained THEN engine ELSE Trained(engine, UsagePredictorModels)

\* what predict_usage returns at time timestamp: the predicted values are
\* kept as the clock reading _get_current_features took them from
Prediction(timestamp) == [current_features |-> timestamp]

\* timedelta.seconds: the seconds left after the whole days of the delta
timedelta_seconds(delta) == delta % 86400

\* MongoDatabase.get_prediction: find_one, None when no document matches
MongoDatabase_get_prediction(collection, user_id) ==
    IF user_id \in DOMAIN collection THEN collection[user_id] ELSE None

\* MongoDatabase.save_prediction at time timestamp: update_one with $set
\* and upsert=True
MongoDatabase_save_prediction(collection, user_id, prediction, timestamp) ==
    [u \in DOMAIN collection \cup {user_id} |->
        IF u = user_id
        THEN [user_id |-> user_id,
              current_features |-> prediction.current_features,
              updated_at |-> timestamp]
        ELSE collection[u]]

\* cached and (datetime.now() - cached['updated_at']).seconds < 300
ServedFromCache(cached, timestamp) ==
    /\ cached # None
    /\ timedelta_seconds(timestamp - cached.updated_at) < 300

\* the state of the parts a specification does not exercise
NoContinuityCall == sorted_sessions = <<>> /\ max_continuous = 0
NoRiskCall == day_record = None /\ current_risk = None
NoInsightCall == window = <<>> /\ insights = <<>>
NoAnomalyCall == features = <<>> /\ anomalies = <<>>
NoTrainingCall ==
    /\ ml_engine = Untrained
    /\ predictor = Untrained
    /\ requests = <<>>
    /\ running = "none"
NoTrackerCall ==
    /\ active_sessions = <<>>
    /\ usage_buffer = <<>>
    /\ clock = 0
    /\ websockets = <<>>
    /\ session_calls = <<>>
    /\ messages_received = 0
    /\ tracker_result = None
NoScoreCall ==
    /\ detected = <<>>
    /\ confidence = 0
    /\ cluster_history = <<>>
    /\ stability = None
    /\ behavior_log = <<>>
    /\ consistency = None
NoCacheCall ==
    /\ predictions = <<>>
    /\ wall_clock = 0
    /\ prediction_requests = 0
    /\ prediction_response = None
NoRequest ==
    /\ db = "connected"
    /\ now \in {t \in NowChoices : t.date = 10}
    /\ logs = EmptyBag
    /\ op = "startup"
    /\ three_day_data = <<>>
    /\ results = None
    /\ response = None

\* startup_event: database.connect() succeeds or leaves db = None
Init ==
    /\ db \in {"connected", "None"}
    /\ now \in NowChoices
    /\ logs = EmptyBag
    /\ op = "startup"
    /\ three_day_data = <<>>
    /\ results = None
    /\ response = None
    /\ NoContinuityCall
    /\ NoRiskCall
    /\ NoInsightCall
    /\ NoAnomalyCall
    /\ NoTrackerCall
    /\ NoTrainingCall
    /\ NoScoreCall
    /\ NoCacheCall

\* POST /api/usage: save_usage_log stores the log unless db is None, then
\* MLEngine.process_usage trains the models on its first call (the
\* insights it adds to the response are not modelled)
log_usage(usage) ==
    /\ BagCardinality(logs) < MaxLogs
    /\ logs' = IF db = "None" THEN logs ELSE logs (+) SetToBag({usage})
    /\ ml_engine' = MLEngine_process_usage(ml_engine)
    /\ op' = "log_usage"
    /\ three_day_data' = <<>>
    /\ results' = None
    /\ response' = [status |-> "success"]
    /\ UNCHANGED <<db, now, predictor, requests, running>>
    /\ UNCHANGED <<continuityVars, riskVars, insightVars, anomalyVars,
                 trackerVars,
                 scoreVars, cacheVars>>

\* UsageDataProcessor.get_three_day_data on the stored logs of all users,
\* listed in any order
GetThreeDayData ==
    /\ op' = "get_three_day_data"
    /\ \E raw_logs \in Listings(logs) :
           three_day_data' = get_three_day_data(raw_logs, now.date)
    /\ results' = None
    /\ response' = None
    /\ UNCHANGED <<db, now, logs>>
    /\ UNCHANGED <<continuityVars, riskVars, insightVars, anomalyVars,
                 trackerVars, trainingVars,
                 scoreVars, cacheVars>>

\* GET /api/addiction-insights/{user_id}.  Any exception, the one of
\* analyze_addiction_risk or the one save_addiction_insights raises on
\* db = None, ends in the except branch.  The addiction_insights
\* collection is only ever written, and is not kept.
get_addiction_insights(user_id) ==
    \E usage_logs \in get_usage_logs(user_id, 7) :
        LET data == IF usage_logs = <<>>
                    THEN generate_sample_data(7)
                    ELSE process_logs_to_daily(usage_logs)
            view == IF Len(data) >= 3 THEN LastN(data, 3) ELSE data
        IN \E ai_insights \in GeminiInsightsService_generate_insights(data) :
           \E viz \in VisualizationOutcomes(view) :
            LET analysis == analyze_addiction_risk(view, viz)
            IN /\ op' = "get_addiction_insights"
               /\ three_day_data' = view
               /\ results' = analysis
               /\ response' = IF analysis = Raised \/ db = "None"
                              THEN FallbackResponse(user_id)
                              ELSE ResponseData(user_id, view, analysis, ai_insights)
               /\ UNCHANGED <<db, now, logs>>
               /\ UNCHANGED <<continuityVars, riskVars, insightVars, anomalyVars,
                 trackerVars, trainingVars,
                 scoreVars, cacheVars>>

\* GET /api/insights/{user_id}: analyze_behavior on the stored logs; with no
\* logs analyze_behavior analyses the 30 random days of
\* _get_user_behavior_data.  save_behavior_analysis raises on db = None,
\* which nothing catches.  The pattern analysis, the insight texts and the
\* write-only user_profiles and behavior_analysis are not kept.
get_insights(user_id) ==
    \E usage_logs \in get_usage_logs(user_id, 30) :
        LET behavior_data == _convert_logs_to_behavior_data(usage_logs)
            rows == _extract_behavioral_features(behavior_data)
        IN \E clusters \in ClusterAssignments(rows) :
            LET analysis ==
                    IF usage_logs = <<>>
                    THEN [user_id |-> user_id, synthetic |-> TRUE]
                    ELSE [user_id |-> user_id,
                          feature_days |-> FeatureDays(behavior_data),
                          features |-> rows,
                          behavior_cluster |-> _perform_clustering(rows, clusters),
                          anomalies |-> _detect_behavioral_anomalies(rows)]
            IN /\ op' = "get_insights"
               /\ three_day_data' = <<>>
               /\ results' = analysis
               /\ response' = IF db = "None"
                              THEN [status |-> "500 Internal Server Error"]
                              ELSE [insights |-> analysis]
               /\ UNCHANGED <<db, now, logs>>
               /\ UNCHANGED <<continuityVars, riskVars, insightVars, anomalyVars,
                 trackerVars, trainingVars,
                 scoreVars, cacheVars>>

Next ==
    \/ \E usage \in UsageEvents : log_usage(usage)
    \/ GetThreeDayData
    \/ \E user_id \in Users : get_addiction_insights(user_id)
    \/ \E user_id \in Users : get_insights(user_id)

Spec == Init /\ [][Next]_vars

----------------------------------------------------------------------------
(* _calculate_max_continuous on time-sorted session lists.                 *)

\* ts + timedelta(minutes=m)
AddMinutes(ts, m) ==
    LET total == Minutes(ts) + m
    IN [date |-> total \div (24 * 60),
        hour |-> (total \div 60) % 24,
        minute |-> total % 60]

SessionStarts == { [date |-> 10, hour |-> 9, minute |-> 0],
                   [date |-> 10, hour |-> 23, minute |-> 56] }
SessionGaps == {0, 3, 4, 5, 10}
SessionDurations == {5, 10}

InitContinuity ==
    /\ NoRequest /\ NoRiskCall /\ NoInsightCall /\ NoAnomalyCall
    /\ NoTrackerCall
    /\ NoTrainingCall
    /\ NoScoreCall
    /\ NoCacheCall
    /\ NoContinuityCall

\* one more session, gap minutes after the last one, and the call
AddSession(start, gap, duration) ==
    /\ Len(sorted_sessions) < MaxSessions
    /\ LET timestamp ==
               IF sorted_sessions = <<>> THEN start
               ELSE AddMinutes(sorted_sessions[Len(sorted_sessions)].timestamp, gap)
       IN sorted_sessions' = Append(sorted_sessions,
                                    [timestamp |-> timestamp, duration |-> duration])
    /\ max_continuous' = _calculate_max_continuous(sorted_sessions')
    /\ UNCHANGED <<serviceVars, riskVars, insightVars, anomalyVars,
                 trackerVars, trainingVars,
                 scoreVars, cacheVars>>

NextContinuity ==
    \E start \in SessionStarts, gap \in SessionGaps, duration \in SessionDurations :
        AddSession(start, gap, duration)

SpecContinuity == InitContinuity /\ [][NextContinuity]_vars

----------------------------------------------------------------------------
(* The rule-based prediction on day records.                               *)

MaxBinge == 5

DailyUsages == {0, 50, 120, 121, 240, 241, 360, 361, 400, 500}
NightUsages == {0, 60, 61, 90}

DayRecords ==
    [total_duration : DailyUsages, night_usage : NightUsages,
     binge_sessions : 0..MaxBinge]

InitRisk ==
    /\ NoRequest /\ NoContinuityCall /\ NoInsightCall /\ NoAnomalyCall
    /\ NoTrackerCall
    /\ NoTrainingCall
    /\ NoScoreCall
    /\ NoCacheCall
    /\ day_record \in DayRecords
    /\ current_risk = predict_risk(day_record)

\* predict_risk on another day record
PredictRisk(day) ==
    /\ day_record' = day
    /\ current_risk' = predict_risk(day)
    /\ UNCHANGED <<serviceVars, continuityVars, insightVars, anomalyVars,
                 trackerVars, trainingVars,
                 scoreVars, cacheVars>>

NextRisk == \E day \in DayRecords : PredictRisk(day)

SpecRisk == InitRisk /\ [][NextRisk]_vars

----------------------------------------------------------------------------
(* generate_insights on day windows.                                       *)

WindowTotals == {0, 100, 130, 160, 161}

\* quiet days and days with heavy night, binge and social media use
WindowDays ==
    [total_duration : WindowTotals, night_usage : {0}, binge_sessions : {0},
     social_media_time : {0}]
    \cup
    [total_duration : WindowTotals, night_usage : {90}, binge_sessions : {3},
     social_media_time : {200}]

InitInsights ==
    /\ NoRequest /\ NoContinuityCall /\ NoRiskCall /\ NoAnomalyCall
    /\ NoTrackerCall
    /\ NoTrainingCall
    /\ NoScoreCall
    /\ NoCacheCall
    /\ window = <<>>
    /\ insights = generate_insights(<<>>)

\* one more day in the window, and the call
AddWindowDay(day) ==
    /\ Len(window) < MaxWindow
    /\ window' = Append(window, day)
    /\ insights' = generate_insights(window')
    /\ UNCHANGED <<serviceVars, continuityVars, riskVars, anomalyVars,
                 trackerVars, trainingVars,
                 scoreVars, cacheVars>>

NextInsights == \E day \in WindowDays : AddWindowDay(day)

SpecInsights == InitInsights /\ [][NextInsights]_vars

----------------------------------------------------------------------------
(* _detect_behavioral_anomalies on feature matrices.                       *)

\* a quiet day and a heavy day (the columns the detector reads)
FeatureSamples ==
    { [total_duration |-> 10, night_usage |-> 1, binge_score |-> Ratio(0, 2)],
      [total_duration |-> 40, night_usage |-> 3, binge_score |-> Ratio(1, 2)] }

InitAnomaly ==
    /\ NoRequest /\ NoContinuityCall /\ NoRiskCall /\ NoInsightCall
    /\ NoTrackerCall
    /\ NoTrainingCall
    /\ NoScoreCall
    /\ NoCacheCall
    /\ features = <<>>
    /\ anomalies = _detect_behavioral_anomalies(<<>>)

\* one more day in the matrix, and the call
AddFeatureDay(row) ==
    /\ Len(features) < MaxFeatureDays
    /\ features' = Append(features, row)
    /\ anomalies' = _detect_behavioral_anomalies(features')
    /\ UNCHANGED <<serviceVars, continuityVars, riskVars, insightVars,
                 trackerVars, trainingVars,
                 scoreVars, cacheVars>>

NextAnomaly == \E row \in FeatureSamples : AddFeatureDay(row)

SpecAnomaly == InitAnomaly /\ [][NextAnomaly]_vars

----------------------------------------------------------------------------
(* The /ws endpoint: websocket_endpoint coroutines sharing one tracker.    *)
(* A coroutine is suspended in receive_text or in the send_text of         *)
(* broadcast; process_usage and the two coroutines it awaits               *)
(* (detect_patterns, check_alerts) contain no suspension point, so on the  *)
(* event loop a call runs from its first line to its return without        *)
(* another coroutine running in between.  Connections stay open.           *)

WebSockets == {"ws1", "ws2"}

\* message["data"] of a usage_update
UsageUpdates ==
    { [user_id |-> "u1", app_name |-> "Instagram"],
      [user_id |-> "u1", app_name |-> "Chrome"],
      [app_name |-> "Chrome"] }

Messages ==
    [type : {"usage_update"}, data : UsageUpdates] \cup {[type |-> "ping"]}

\* seconds between two readings of datetime.now()
ClockSteps == {0, 3700}

TrackerStart == 9 * 3600

\* the histories the tracker starts from: none, and a buffer one entry
\* short of its capacity
InitialHistories == {0, usage_buffer_maxlen - 1}

\* an event of a recorded history: the usage_update data and the seconds
\* since the event before it
Past(user_id, app_name, elapsed) ==
    [data |-> [user_id |-> user_id, app_name |-> app_name],
     elapsed |-> elapsed]

\* the tracker after process_usage has run on each event in turn, from an
\* empty tracker at time start (fewer events than the buffer holds): event
\* i happened at At(i); the session of its key began with the key's first
\* event and has counted the key's events so far
Recorded(events, start) ==
    LET At(i) == start + SumSeq([j \in 1..i |-> events[j].elapsed])
        KeyOf(i) == session_key(events[i].data.user_id, events[i].data.app_name)
        First(i) == CHOOSE j \in 1..i :
                        /\ KeyOf(j) = KeyOf(i)
                        /\ \A k \in 1..(j - 1) : KeyOf(k) # KeyOf(i)
        SessionAfter(i) ==
            [start_time |-> At(First(i)),
             total_time |-> At(i) - At(First(i)),
             interactions |-> Cardinality({j \in 1..i : KeyOf(j) = KeyOf(i)})]
        LastOf(key) == CHOOSE i \in 1..Len(events) :
                           /\ KeyOf(i) = key
                           /\ \A j \in (i + 1)..Len(events) : KeyOf(j) # key
        keys == {KeyOf(i) : i \in 1..Len(events)}
    IN [active_sessions |-> [key \in keys |-> SessionAfter(LastOf(key))],
        usage_buffer |->
            [i \in 1..Len(events) |->
                BufferEntry(events[i].data.user_id, events[i].data.app_name,
                            At(i), SessionAfter(i))],
        clock |-> At(Len(events)),
        session_calls |->
            [key \in keys |->
                [completed |-> SessionAfter(LastOf(key)).interactions,
                 first |-> SessionAfter(LastOf(key)).start_time]]]

\* eight quick events of one session: two short of pattern detection
QuietHistory == [i \in 1..8 |-> Past("u1", "Instagram", 1)]

\* nine events of u2 going round four apps
SwitchingHistory ==
    [i \in 1..9 |->
        Past("u2", <<"YouTube", "WhatsApp", "TikTok", "Gmail">>[(i % 4) + 1], 1)]

\* three events of a long u2 session, then 21 quick events of u1
HeavyThenLightHistory ==
    [i \in 1..24 |->
        IF i <= 3 THEN Past("u2", "Chrome", 2000)
        ELSE Past("u1", "Instagram", 1)]

RecordedHistories == {QuietHistory, SwitchingHistory, HeavyThenLightHistory}

\* the tracker holds tracker
TrackerIs(tracker) ==
    /\ active_sessions = tracker.active_sessions
    /\ usage_buffer = tracker.usage_buffer
    /\ clock = tracker.clock
    /\ session_calls = tracker.session_calls

InitTracker ==
    /\ NoRequest /\ NoContinuityCall /\ NoRiskCall /\ NoInsightCall
    /\ NoAnomalyCall
    /\ NoTrainingCall
    /\ NoScoreCall
    /\ NoCacheCall
    /\ \/ \E n \in InitialHistories : TrackerIs(TrackerAfter(n, TrackerStart))
       \/ \E events \in RecordedHistories :
              TrackerIs(Recorded(events, TrackerStart))
    /\ tracker_result = None
    /\ websockets = [ws \in WebSockets |-> "receive_text"]
    /\ messages_received = 0

\* receive_text returns a message: a usage_update is processed and its
\* result is being broadcast; any other message is dropped
websocket_endpoint(ws, message, elapsed) ==
    /\ websockets[ws] = "receive_text"
    /\ messages_received < MaxMessages
    /\ messages_received' = messages_received + 1
    /\ IF message.type = "usage_update"
       THEN LET timestamp == clock + elapsed
                result == RealTimeTracker_process_usage(
                              active_sessions, usage_buffer, message.data,
                              timestamp)
            IN /\ clock' = timestamp
               /\ active_sessions' = result.active_sessions
               /\ usage_buffer' = result.usage_buffer
               /\ session_calls' =
                      CallRecorded(session_calls, result.session_key, timestamp)
               /\ tracker_result' =
                      [session_key |-> result.session_key,
                       session_info |-> result.session_info,
                       patterns |-> result.patterns,
                       alerts |-> result.alerts]
               /\ websockets' = [websockets EXCEPT ![ws] = "send_text"]
       ELSE UNCHANGED <<clock, active_sessions, usage_buffer, session_calls,
                        websockets, tracker_result>>
    /\ UNCHANGED <<serviceVars, continuityVars, riskVars, insightVars,
                   anomalyVars, trainingVars,
                   scoreVars, cacheVars>>

\* manager.broadcast returns and the coroutine waits for the next message
broadcast(ws) ==
    /\ websockets[ws] = "send_text"
    /\ websockets' = [websockets EXCEPT ![ws] = "receive_text"]
    /\ UNCHANGED <<active_sessions, usage_buffer, clock, session_calls,
                   messages_received, tracker_result>>
    /\ UNCHANGED <<serviceVars, continuityVars, riskVars, insightVars,
                   anomalyVars, trainingVars,
                   scoreVars, cacheVars>>

NextTracker ==
    \/ \E ws \in WebSockets, message \in Messages, elapsed \in ClockSteps :
           websocket_endpoint(ws, message, elapsed)
    \/ \E ws \in WebSockets : broadcast(ws)

SpecTracker == InitTracker /\ [][NextTracker]_vars

----------------------------------------------------------------------------
(* Concurrent requests that train the models lazily: POST /api/usage       *)
(* (MLEngine.process_usage) and GET /api/predictions                       *)
(* (UsagePredictor.predict_usage, no prediction being cached).  Every      *)
(* handler is a coroutine of one event loop: a coroutine runs until it     *)
(* awaits something that suspends it, and only then may another one run.   *)

Requests == {"r1", "r2", "r3"}
Handlers == {"log_usage", "get_predictions"}

NotArrived == [handler |-> "none", at |-> "not arrived", step |-> 0,
               scored |-> None]

InitTraining ==
    /\ NoRequest /\ NoContinuityCall /\ NoRiskCall /\ NoInsightCall
    /\ NoAnomalyCall /\ NoTrackerCall
    /\ NoScoreCall
    /\ NoCacheCall
    /\ ml_engine = Untrained
    /\ predictor = Untrained
    /\ requests = [r \in Requests |-> NotArrived]
    /\ running = "none"

EngineOf(r) ==
    IF requests[r].handler = "log_usage" THEN ml_engine ELSE predictor

ModelsOf(handler) ==
    IF handler = "log_usage" THEN MLEngineModels ELSE UsagePredictorModels

\* the coroutine the loop runs once r has awaited something
AfterAwait(awaited, r) == IF Suspends(awaited) THEN "none" ELSE r

\* r holds the event loop, or the loop is free to resume it
MayRun(r) == running = r \/ running = "none"

\* a request arrives; its handler runs up to its first database call
Arrive(r, handler) ==
    /\ running = "none"
    /\ requests[r].at = "not arrived"
    /\ LET awaited == IF handler = "log_usage" THEN "save_usage_log"
                      ELSE "get_prediction"
       IN /\ requests' = [requests EXCEPT ![r].handler = handler,
                                          ![r].at = awaited]
          /\ running' = AfterAwait(awaited, r)
    /\ UNCHANGED <<ml_engine, predictor>>
    /\ UNCHANGED <<serviceVars, continuityVars, riskVars, insightVars,
                   anomalyVars, trackerVars,
                   scoreVars, cacheVars>>

\* the database call is over; process_usage / predict_usage tests
\* self.is_trained and awaits _train_models when it is False
EnterCall(r) ==
    /\ MayRun(r)
    /\ requests[r].at \in {"save_usage_log", "get_prediction"}
    /\ IF EngineOf(r).is_trained
       THEN /\ requests' = [requests EXCEPT ![r].at = "score"]
            /\ running' = r
       ELSE /\ requests' = [requests EXCEPT ![r].at = "_train_models",
                                            ![r].step = 0]
            /\ running' = AfterAwait("_train_models", r)
    /\ UNCHANGED <<ml_engine, predictor>>
    /\ UNCHANGED <<serviceVars, continuityVars, riskVars, insightVars,
                   anomalyVars, trackerVars,
                   scoreVars, cacheVars>>

\* one statement of _train_models: the fit of the next model, and after the
\* last fit self.is_trained = True
TrainStep(r) ==
    /\ MayRun(r)
    /\ requests[r].at = "_train_models"
    /\ LET models == ModelsOf(requests[r].handler)
           step == requests[r].step
           entered == IF step = 0 THEN TrainingEntered(EngineOf(r))
                      ELSE EngineOf(r)
           engine == IF step < Len(models)
                     THEN Fitted(entered, models[step + 1])
                     ELSE MarkedTrained(entered)
       IN /\ IF requests[r].handler = "log_usage"
             THEN ml_engine' = engine /\ UNCHANGED predictor
             ELSE predictor' = engine /\ UNCHANGED ml_engine
          /\ requests' = IF step < Len(models)
                         THEN [requests EXCEPT ![r].step = step + 1]
                         ELSE [requests EXCEPT ![r].at = "score"]
    /\ running' = r
    /\ UNCHANGED <<serviceVars, continuityVars, riskVars, insightVars,
                   anomalyVars, trackerVars,
                   scoreVars, cacheVars>>

\* the models score the features (decision_function, predict); log_usage
\* then returns, get_predictions awaits save_prediction
Score(r) ==
    /\ MayRun(r)
    /\ requests[r].at = "score"
    /\ LET scored == [fitted |-> EngineOf(r).fitted,
                      is_trained |-> EngineOf(r).is_trained]
       IN IF requests[r].handler = "log_usage"
          THEN /\ requests' = [requests EXCEPT ![r].at = "returned",
                                               ![r].scored = scored]
               /\ running' = "none"
          ELSE /\ requests' = [requests EXCEPT ![r].at = "save_prediction",
                                               ![r].scored = scored]
               /\ running' = AfterAwait("save_prediction", r)
    /\ UNCHANGED <<ml_engine, predictor>>
    /\ UNCHANGED <<serviceVars, continuityVars, riskVars, insightVars,
                   anomalyVars, trackerVars,
                   scoreVars, cacheVars>>

\* save_prediction is over and get_predictions returns
Return(r) ==
    /\ MayRun(r)
    /\ requests[r].at = "save_prediction"
    /\ requests' = [requests EXCEPT ![r].at = "returned"]
    /\ running' = "none"
    /\ UNCHANGED <<ml_engine, predictor>>
    /\ UNCHANGED <<serviceVars, continuityVars, riskVars, insightVars,
                   anomalyVars, trackerVars,
                   scoreVars, cacheVars>>

NextTraining ==
    \/ \E r \in Requests, handler \in Handlers : Arrive(r, handler)
    \/ \E r \in Requests : EnterCall(r)
    \/ \E r \in Requests : TrainStep(r)
    \/ \E r \in Requests : Score(r)
    \/ \E r \in Requests : Return(r)

SpecTraining == InitTraining /\ [][NextTraining]_vars

----------------------------------------------------------------------------
(* _detect_behavioral_anomalies on short matrices whose three columns vary *)
(* one at a time, with days without any usage time.                        *)

\* a day of sessions of duration 0, a quiet day, and the quiet day with a
\* long total, with night sessions, with long sessions
ColumnSamples ==
    { [total_duration |-> 0, night_usage |-> 0, binge_score |-> Ratio(0, 1)],
      [total_duration |-> 10, night_usage |-> 1, binge_score |-> Ratio(0, 2)],
      [total_duration |-> 40, night_usage |-> 1, binge_score |-> Ratio(0, 2)],
      [total_duration |-> 10, night_usage |-> 3, binge_score |-> Ratio(0, 2)],
      [total_duration |-> 10, night_usage |-> 1, binge_score |-> Ratio(1, 2)] }

\* one more day in the matrix, and the call
AddColumnDay(row) ==
    /\ Len(features) < MaxCheckDays
    /\ features' = Append(features, row)
    /\ anomalies' = _detect_behavioral_anomalies(features')
    /\ UNCHANGED <<serviceVars, continuityVars, riskVars, insightVars,
                   trackerVars, trainingVars, scoreVars, cacheVars>>

NextAnomalyChecks == \E row \in ColumnSamples : AddColumnDay(row)

SpecAnomalyChecks == InitAnomaly /\ [][NextAnomalyChecks]_vars

----------------------------------------------------------------------------
(* _calculate_cluster_stability on the assignments of KMeans(n_clusters=4). *)

InitStability ==
    /\ NoRequest /\ NoContinuityCall /\ NoRiskCall /\ NoInsightCall
    /\ NoAnomalyCall /\ NoTrackerCall /\ NoTrainingCall /\ NoCacheCall
    /\ detected = <<>> /\ confidence = 0
    /\ behavior_log = <<>> /\ consistency = None
    /\ cluster_history = <<>>
    /\ stability = _calculate_cluster_stability(<<>>)

\* one more day's assignment, and the call
AddAssignment(cluster) ==
    /\ Len(cluster_history) < MaxAssignments
    /\ cluster_history' = Append(cluster_history, cluster)
    /\ stability' = _calculate_cluster_stability(cluster_history')
    /\ UNCHANGED <<detected, confidence, behavior_log, consistency>>
    /\ UNCHANGED <<serviceVars, continuityVars, riskVars, insightVars,
                   anomalyVars, trackerVars, trainingVars, cacheVars>>

NextStability == \E cluster \in 0..3 : AddAssignment(cluster)

SpecStability == InitStability /\ [][NextStability]_vars

----------------------------------------------------------------------------
(* _calculate_pattern_consistency on behaviour data, newest entry first as *)
(* get_usage_logs returns the logs.                                        *)

\* the day of the newest entry
NewestDay == 30

EntryDurations == {0, 10}

InitConsistency ==
    /\ NoRequest /\ NoContinuityCall /\ NoRiskCall /\ NoInsightCall
    /\ NoAnomalyCall /\ NoTrackerCall /\ NoTrainingCall /\ NoCacheCall
    /\ detected = <<>> /\ confidence = 0
    /\ cluster_history = <<>> /\ stability = None
    /\ behavior_log = <<>>
    /\ consistency = _calculate_pattern_consistency(<<>>)

\* one more entry, of the day of the entry before it or of the day before
\* that day, and the call
AddEntry(days_before, duration) ==
    /\ Len(behavior_log) < MaxEntries
    /\ LET date == IF behavior_log = <<>> THEN NewestDay
                   ELSE behavior_log[Len(behavior_log)].timestamp.date
                            - days_before
       IN behavior_log' =
              behavior_log
              \o _convert_logs_to_behavior_data(
                     << Event("u1", date, 9, 0, "Instagram", duration) >>)
    /\ consistency' = _calculate_pattern_consistency(behavior_log')
    /\ UNCHANGED <<detected, confidence, cluster_history, stability>>
    /\ UNCHANGED <<serviceVars, continuityVars, riskVars, insightVars,
                   anomalyVars, trackerVars, trainingVars, cacheVars>>

NextConsistency ==
    \E days_before \in {0, 1}, duration \in EntryDurations :
        AddEntry(days_before, duration)

SpecConsistency == InitConsistency /\ [][NextConsistency]_vars

----------------------------------------------------------------------------
(* GET /api/predictions/{user_id} over time, with the database connected.  *)

\* seconds between two requests: a moment, the cache lifetime, a day
RequestGaps == {10, 300, 86400}

InitCache ==
    /\ NoRequest /\ NoContinuityCall /\ NoRiskCall /\ NoInsightCall
    /\ NoAnomalyCall /\ NoTrackerCall /\ NoTrainingCall /\ NoScoreCall
    /\ NoCacheCall

\* get_predictions, elapsed seconds after the request before it; the
\* handler's own running time is taken as none.  On db = None
\* get_prediction raises, which nothing catches.
get_predictions(user_id, elapsed) ==
    /\ prediction_requests < MaxRequests
    /\ prediction_requests' = prediction_requests + 1
    /\ wall_clock' = wall_clock + elapsed
    /\ LET cached == MongoDatabase_get_prediction(predictions, user_id)
           new == Prediction(wall_clock')
       IN IF db = "None"
          THEN /\ prediction_response' =
                      [user_id |-> user_id,
                       status |-> "500 Internal Server Error"]
               /\ UNCHANGED <<predictions, predictor>>
          ELSE IF ServedFromCache(cached, wall_clock')
          THEN /\ prediction_response' =
                      [user_id |-> user_id, predictions |-> cached]
               /\ UNCHANGED <<predictions, predictor>>
          ELSE /\ predictor' = UsagePredictor_predict_usage(predictor)
               /\ predictions' =
                      MongoDatabase_save_prediction(predictions, user_id, new,
                                                    wall_clock')
               /\ prediction_response' =
                      [user_id |-> user_id, predictions |-> new]
    /\ UNCHANGED <<ml_engine, requests, running>>
    /\ UNCHANGED <<serviceVars, continuityVars, riskVars, insightVars,
                   anomalyVars, trackerVars, scoreVars>>

NextCache ==
    \E user_id \in Users, elapsed \in RequestGaps :
        get_predictions(user_id, elapsed)

SpecCache == InitCache /\ [][NextCache]_vars

----------------------------------------------------------------------------
(* _calculate_pattern_confidence on pattern lists.                         *)

\* patterns as the detectors build them, and one of a severity the score
\* does not count
PatternSamples ==
    { [type |-> "binge_usage", severity |-> "high", duration |-> Ratio(7300, 60)],
      [type |-> "binge_usage", severity |-> "medium", duration |-> Ratio(3700, 60)],
      [type |-> "peak_usage_time", peak_hour |-> 9, peak_usage |-> Ratio(3700, 60)],
      [type |-> "app_switching", app_count |-> 5],
      [type |-> "other", severity |-> "low"] }

InitConfidence ==
    /\ NoRequest /\ NoContinuityCall /\ NoRiskCall /\ NoInsightCall
    /\ NoAnomalyCall /\ NoTrackerCall /\ NoTrainingCall /\ NoCacheCall
    /\ cluster_history = <<>> /\ stability = None
    /\ behavior_log = <<>> /\ consistency = None
    /\ detected = <<>>
    /\ confidence = _calculate_pattern_confidence(<<>>)

\* one more pattern in the list, and the call
AddPattern(pattern) ==
    /\ Len(detected) < MaxPatterns
    /\ detected' = Append(detected, pattern)
    /\ confidence' = _calculate_pattern_confidence(detected')
    /\ UNCHANGED <<cluster_history, stability, behavior_log, consistency>>
    /\ UNCHANGED <<serviceVars, continuityVars, riskVars, insightVars,
                   anomalyVars, trackerVars, trainingVars, cacheVars>>

NextConfidence == \E pattern \in PatternSamples : AddPattern(pattern)

SpecConfidence == InitConfidence /\ [][NextConfidence]_vars

----------------------------------------------------------------------------
(* Properties.                                                             *)

BucketSum(d) ==
    d.morning_usage + d.afternoon_usage + d.evening_usage + d.night_usage

\* the window of get_addiction_insights was aggregated from stored logs
\* (not taken from generate_sample_data)
ViewFromLogs ==
    /\ op = "get_addiction_insights"
    /\ three_day_data # <<>>
    /\ "isoformat" \in DOMAIN three_day_data[1].date

\* C1: in every per-day record aggregate_daily_data produces (the days of
\* get_three_day_data) and in every per-day record process_logs_to_daily
\* produces (the days of the addiction-insights window), the four
\* time-of-day buckets add up to total_duration.
C1_PartitionInvariant ==
    (op = "get_three_day_data" \/ ViewFromLogs) =>
        \A i \in 1..Len(three_day_data) :
            BucketSum(three_day_data[i]) = three_day_data[i].total_duration

\* a day aggregated by aggregate_daily_data from sessions in two buckets,
\* night among them
C1_Witness ==
    /\ op = "get_three_day_data"
    /\ \E i \in 1..Len(three_day_data) :
           /\ three_day_data[i].session_count >= 2
           /\ three_day_data[i].night_usage > 0
           /\ three_day_data[i].evening_usage > 0

\* the maximal runs of a session list: index intervals <<i, j>> whose inner
\* gaps are all below 5 minutes and that no neighbour extends
GapBefore(sessions, i) ==
    Minutes(sessions[i].timestamp) - Minutes(sessions[i - 1].timestamp)

MaximalRuns(sessions) ==
    LET n == Len(sessions)
    IN { r \in (1..n) \X (1..n) :
           /\ r[1] <= r[2]
           /\ \A k \in (r[1] + 1)..r[2] : GapBefore(sessions, k) < 5
           /\ (r[1] = 1 \/ GapBefore(sessions, r[1]) >= 5)
           /\ (r[2] = n \/ GapBefore(sessions, r[2] + 1) >= 5) }

RunSum(sessions, r) ==
    SumSeq([k \in 1..(r[2] - r[1] + 1) |-> sessions[r[1] + k - 1].duration])

DurationsAre(sessions, ds) ==
    /\ Len(sessions) = Len(ds)
    /\ \A k \in 1..Len(ds) : sessions[k].duration = ds[k]

GapsAre(sessions, gs) ==
    /\ Len(sessions) = Len(gs) + 1
    /\ \A k \in 1..Len(gs) : GapBefore(sessions, k + 1) = gs[k]

\* C2: _calculate_max_continuous returns the largest duration sum over the
\* maximal runs of sessions less than 5 minutes apart (0 for no session, the
\* session's duration for one); it is at least every session's duration, and
\* durations 10,10,10 three minutes apart followed 10 minutes later by 5
\* give 30.
C2_MaxContinuousIsBestRun ==
    LET runs == MaximalRuns(sorted_sessions)
    IN /\ sorted_sessions = <<>> => max_continuous = 0
       /\ Len(sorted_sessions) = 1 => max_continuous = sorted_sessions[1].duration
       /\ \A r \in runs : max_continuous >= RunSum(sorted_sessions, r)
       /\ sorted_sessions # <<>> =>
              \E r \in runs : max_continuous = RunSum(sorted_sessions, r)
       /\ \A k \in 1..Len(sorted_sessions) :
              max_continuous >= sorted_sessions[k].duration
       /\ (DurationsAre(sorted_sessions, <<10, 10, 10, 5>>)
           /\ GapsAre(sorted_sessions, <<3, 3, 10>>)) => max_continuous = 30

\* the scenario of the claim, and a run ended by a gap of exactly 5
C2_Witness ==
    /\ DurationsAre(sorted_sessions, <<10, 10, 10, 5>>)
    /\ GapsAre(sorted_sessions, <<3, 3, 10>>)
    /\ max_continuous = 30

\* C3: the rule-based prediction scores the highest matching usage tier
\* (3 above 360, 2 above 240, 1 above 120), plus 2 for night usage above 60,
\* plus 2 for more than 3 binge sessions; the level is min(score, 3), the
\* probability min(score / 7, 1) and the label that of the level, never
\* 'Unknown'; totals 400, 50, 500 without night or binge usage give levels
\* 3, 0, 3.
C3_RuleBasedPrediction ==
    day_record # None =>
        LET t == day_record.total_duration
            tier == CASE t > 360 -> 3
                      [] t > 240 /\ t <= 360 -> 2
                      [] t > 120 /\ t <= 240 -> 1
                      [] OTHER -> 0
            score == tier
                     + (IF day_record.night_usage > 60 THEN 2 ELSE 0)
                     + (IF day_record.binge_sessions > 3 THEN 2 ELSE 0)
            quiet == day_record.night_usage = 0 /\ day_record.binge_sessions = 0
        IN /\ current_risk.risk_level = (IF score < 3 THEN score ELSE 3)
           /\ current_risk.risk_probability_7ths = score
           /\ current_risk.risk_level \in 0..3
           /\ current_risk.risk_probability_7ths \in 0..7
           /\ current_risk.risk_label =
                  <<"Low", "Moderate", "High", "Critical">>[current_risk.risk_level + 1]
           /\ (quiet /\ t \in {400, 500}) =>
                  current_risk.risk_level = 3 /\ current_risk.risk_label = "Critical"
           /\ (quiet /\ t = 50) =>
                  current_risk.risk_level = 0 /\ current_risk.risk_label = "Low"

\* a day above 360 minutes with night usage scored: two rules add up and
\* the level is capped
C3_Witness ==
    /\ day_record # None
    /\ day_record.total_duration = 400
    /\ day_record.night_usage = 61
    /\ day_record.binge_sessions = 0
    /\ current_risk.risk_level = 3
    /\ current_risk.risk_probability_7ths = 5

\* the second record raises exactly one rule input of the first
RaisesOneInput(a, b) ==
    \/ /\ b.total_duration > a.total_duration
       /\ b.night_usage = a.night_usage
       /\ b.binge_sessions = a.binge_sessions
    \/ /\ b.total_duration = a.total_duration
       /\ b.night_usage > a.night_usage
       /\ b.binge_sessions = a.binge_sessions
    \/ /\ b.total_duration = a.total_duration
       /\ b.night_usage = a.night_usage
       /\ b.binge_sessions > a.binge_sessions

\* C4: a prediction for a day record that raises exactly one of
\* total_duration, night_usage, binge_sessions over the record predicted
\* before it has a risk level and a risk probability at least as high.
C4_RiskMonotone ==
    [][RaisesOneInput(day_record, day_record') =>
          /\ current_risk'.risk_level >= current_risk.risk_level
          /\ current_risk'.risk_probability_7ths
                 >= current_risk.risk_probability_7ths]_vars

\* a prediction reached by raising night usage across its threshold from a
\* day at level 1
C4_Witness ==
    /\ day_record # None
    /\ day_record.total_duration = 121
    /\ day_record.night_usage = 61
    /\ day_record.binge_sessions = 0
    /\ current_risk.risk_level = 3

NumericFields ==
    {"total_duration", "session_count", "morning_usage", "afternoon_usage",
     "evening_usage", "night_usage", "binge_sessions", "max_continuous_usage",
     "social_media_time", "entertainment_time", "productivity_time", "other_time"}

HasLogOn(date) == \E d \in BagToSet(logs) : d.timestamp.date = date

\* C5: get_three_day_data returns exactly 3 records, oldest first, for the
\* three consecutive dates ending today, and the record of a date without
\* logs has every numeric field 0.
C5_ThreeDaysZeroFilled ==
    op = "get_three_day_data" =>
        /\ Len(three_day_data) = 3
        /\ \A k \in 1..3 :
               /\ three_day_data[k].date = now.date - 3 + k
               /\ DOMAIN three_day_data[k] = NumericFields \cup {"date"}
               /\ ~HasLogOn(now.date - 3 + k) =>
                      \A f \in NumericFields : three_day_data[k][f] = 0
               /\ HasLogOn(now.date - 3 + k) =>
                      three_day_data[k].session_count > 0

\* logs that cover only some of the three days
C5_Witness ==
    /\ op = "get_three_day_data"
    /\ logs # EmptyBag
    /\ \E k \in 1..3 : ~HasLogOn(now.date - 3 + k)
                       /\ three_day_data[k].total_duration = 0
    /\ \E k \in 1..3 : HasLogOn(now.date - 3 + k)
                       /\ three_day_data[k].total_duration > 0

\* C6: whenever the addiction-insights flow aggregates stored logs, the
\* window handed to analyze_addiction_risk has exactly 3 entries, one per
\* consecutive calendar day.
C6_InsightsWindowHasThreeDays ==
    ViewFromLogs =>
        /\ Len(three_day_data) = 3
        /\ \A k \in 1..2 : three_day_data[k + 1].date.isoformat
                           = three_day_data[k].date.isoformat + 1

\* the dates of the logs get_usage_logs(user_id, 7) returned to the flow
WindowLogDates ==
    { d.timestamp.date : d \in
        { l \in BagToSet(logs) :
            /\ l.user_id = response.user_id
            /\ Minutes(l.timestamp) >= Minutes(now) - 7 * 24 * 60 } }

\* C7: in the addiction-insights flow the window is ordered oldest first, so
\* the record assessed as the current risk, the last of the window, is that
\* of the most recent day present in the logs.
C7_CurrentRiskIsLatestDay ==
    (ViewFromLogs /\ results # Raised) =>
        /\ \A k \in 1..(Len(three_day_data) - 1) :
               three_day_data[k].date.isoformat
                   < three_day_data[k + 1].date.isoformat
        /\ \A date \in WindowLogDates :
               three_day_data[Len(three_day_data)].date.isoformat >= date

IsTrendInsight(i) == i.message \in {"Usage increasing", "Usage decreasing"}

TrendInsights(found) == SelectSeq(found, IsTrendInsight)

\* 10 times the least-squares slope of 2, 3 or 4 equally spaced values, in
\* closed form: (y2 - y1), (y3 - y1) / 2, (3 (y4 - y1) + (y3 - y2)) / 10
TenTimesSlope(y) ==
    CASE Len(y) = 2 -> 10 * (y[2] - y[1])
      [] Len(y) = 3 -> 5 * (y[3] - y[1])
      [] Len(y) = 4 -> 3 * (y[4] - y[1]) + (y[3] - y[2])

\* C8: generate_insights emits a trend insight from the least-squares slope
\* of total_duration: exactly one 'warning' of severity high for a strictly
\* increasing 3-day window with slope above 30, exactly one 'positive' of
\* severity low for a strictly decreasing one with slope below -30, none for
\* a flat window, for a slope within [-30, 30] and for fewer than 2 days.
C8_TrendInsight ==
    LET y == [i \in DOMAIN window |-> TotalDuration(window[i])]
        trend == TrendInsights(insights)
    IN /\ Len(y) < 2 => trend = <<>>
       /\ (Len(y) = 3 /\ y[1] < y[2] /\ y[2] < y[3] /\ y[3] - y[1] > 60) =>
              /\ Len(trend) = 1
              /\ trend[1].type = "warning" /\ trend[1].severity = "high"
              /\ trend[1].message = "Usage increasing"
       /\ (Len(y) = 3 /\ y[1] > y[2] /\ y[2] > y[3] /\ y[1] - y[3] > 60) =>
              /\ Len(trend) = 1
              /\ trend[1].type = "positive" /\ trend[1].severity = "low"
              /\ trend[1].message = "Usage decreasing"
       /\ (Len(y) >= 2 /\ \A k \in 1..Len(y) : y[k] = y[1]) => trend = <<>>
       /\ (Len(y) \in 2..4 /\ TenTimesSlope(y) >= -300 /\ TenTimesSlope(y) <= 300) =>
              trend = <<>>

\* a strictly increasing 3-day window with slope above 30 whose days also
\* raise the night warning: the trend warning is the only trend insight
C8_Witness ==
    /\ Len(window) = 3
    /\ window[1].total_duration = 0
    /\ window[2].total_duration = 100
    /\ window[3].total_duration = 161
    /\ Len(insights) >= 2
    /\ Len(TrendInsights(insights)) = 1
    /\ insights[1].type = "warning"

RECURSIVE SumColumn(_, _, _, _)
SumColumn(rows, Column(_), first, last) ==
    IF first > last THEN 0
    ELSE Column(rows[first]) + SumColumn(rows, Column, first + 1, last)

HasAnomaly(found, type) == \E i \in 1..Len(found) : found[i].type = type

\* C9: anomaly detection returns the empty list below 5 days; from 5 to 13
\* days it compares the mean of the last 3 days with the mean of days
\* 1..n-3, and from 14 days on with the mean of the first 11 of the last 14
\* days (total_duration: more than 1.5 times; night sessions: more than
\* twice).
C9_AnomalyWindows ==
    LET n == Len(features)
        first == IF n <= 13 THEN 1 ELSE n - 13
        h == (n - 3) - first + 1
        RecentSum(Column(_)) == SumColumn(features, Column, n - 2, n)
        EarlierSum(Column(_)) == SumColumn(features, Column, first, n - 3)
    IN /\ n < 5 => anomalies = <<>>
       /\ n >= 5 =>
              /\ HasAnomaly(anomalies, "usage_spike")
                     <=> 2 * RecentSum(FeatureTotal) * h > 9 * EarlierSum(FeatureTotal)
              /\ HasAnomaly(anomalies, "night_usage_increase")
                     <=> RecentSum(FeatureNight) * h > 6 * EarlierSum(FeatureNight)

\* 15 days whose first day lies outside the last 14: the last 3 days
\* average 20, which exceeds 1.5 * (140 / 11) for days 2..12 but would not
\* exceed 1.5 * (180 / 12) for days 1..12
C9_Witness ==
    /\ Len(features) = 15
    /\ features[1].total_duration = 40
    /\ features[2].total_duration = 40
    /\ \A k \in 3..14 : features[k].total_duration = 10
    /\ features[15].total_duration = 40
    /\ HasAnomaly(anomalies, "usage_spike")

\* C10: the rows of the feature matrix analyze_behavior builds are in
\* ascending date order, whatever the order of the logs, so the last row is
\* the latest day.
C10_FeatureRowsAscending ==
    (op = "get_insights" /\ "feature_days" \in DOMAIN results) =>
        \A i \in 1..Len(results.feature_days) :
            \A j \in 1..Len(results.feature_days) :
                i < j => results.feature_days[i] < results.feature_days[j]

----------------------------------------------------------------------------
(* The real-time tracker.                                                  *)

EntryKey(entry) == session_key(entry.user_id, entry.app_name)

EntriesOf(key) == SelectSeq(usage_buffer, LAMBDA entry : EntryKey(entry) = key)

RECURSIVE SumCompleted(_)
SumCompleted(keys) ==
    IF keys = {} THEN 0
    ELSE LET key == CHOOSE k \in keys : TRUE
         IN session_calls[key].completed + SumCompleted(keys \ {key})

\* C11: with websocket coroutines interleaving, after n process_usage calls
\* for one session key the session counts exactly n interactions and still
\* has the start_time of the key's first call (it was created once), and
\* every call appended one buffer entry: the buffer holds one entry per call
\* (up to its capacity) and the entries of a key carry strictly increasing,
\* hence distinct, interaction counts that end at n.
C11_NoLostSessionUpdate ==
    /\ DOMAIN active_sessions = DOMAIN session_calls
    /\ \A key \in DOMAIN session_calls :
          /\ active_sessions[key].interactions = session_calls[key].completed
          /\ active_sessions[key].start_time = session_calls[key].first
          /\ LET entries == EntriesOf(key)
             IN /\ \A i \in 1..(Len(entries) - 1) :
                       entries[i + 1].interactions = entries[i].interactions + 1
                /\ entries # <<>> =>
                       entries[Len(entries)].interactions
                           = session_calls[key].completed
    /\ Len(usage_buffer)
           = Min(SumCompleted(DOMAIN session_calls), usage_buffer_maxlen)

\* two coroutines have each processed an event of one key and both are
\* still inside websocket_endpoint, sending their results
C11_Witness ==
    /\ \A ws \in WebSockets : websockets[ws] = "send_text"
    /\ session_key("u1", "Instagram") \in DOMAIN session_calls
    /\ session_calls[session_key("u1", "Instagram")].completed = 2
    /\ Len(usage_buffer) = 2

\* C12: every process_usage call leaves at most 1000 entries in the buffer:
\* the call's own entry is the last one, the entries before it are the
\* previous buffer in its order, without its oldest entry when it was full.
C12_BufferKeepsMostRecent ==
    [][session_calls' # session_calls =>
         /\ Len(usage_buffer') = Min(Len(usage_buffer) + 1, usage_buffer_maxlen)
         /\ usage_buffer'[Len(usage_buffer')].timestamp = clock'
         /\ DropLastN(usage_buffer', 1)
                = LastN(usage_buffer, usage_buffer_maxlen - 1)]_vars

\* an event arrived at a full buffer and the oldest entry, the one event of
\* u2, is gone
C12_Witness ==
    /\ Len(usage_buffer) = usage_buffer_maxlen
    /\ messages_received = 2
    /\ usage_buffer[1].user_id = "u1"
    /\ session_key("u2", "Chrome") \in DOMAIN session_calls

\* C20: every key of the live-session map has an event in the buffer, so a
\* session whose events have all been evicted is no longer in the map.
C20_SessionEvictedWithItsEvents ==
    \A key \in DOMAIN active_sessions :
        \E i \in 1..Len(usage_buffer) : EntryKey(usage_buffer[i]) = key

----------------------------------------------------------------------------
(* Collaborator failures in the addiction-insights flow.                   *)

\* the risk assessment the response carries when it reports the result of
\* the core
CoreRiskAssessment(analysis) ==
    [level |-> analysis.current_risk.risk_level,
     label |-> analysis.current_risk.risk_label,
     probability_7ths |-> analysis.current_risk.risk_probability_7ths]

\* C13: when the database is unavailable and the core has computed a risk
\* assessment from the day window, the response of the addiction-insights
\* flow carries that assessment and not the canned fallback.
C13_DatabaseFailureKeepsCoreResult ==
    (op = "get_addiction_insights" /\ db = "None" /\ results # Raised) =>
        /\ response # FallbackResponse(response.user_id)
        /\ response.risk_assessment = CoreRiskAssessment(results)

MessagesOf(items) == {items[i].message : i \in DOMAIN items}

\* C14: the response of the addiction-insights flow contains every insight
\* of the core's generate_insights and every recommendation of the core's
\* _generate_recommendations for the day window, whatever the
\* generative-text service returned (stated for a connected database, where
\* the response is built from the analysis).
C14_CoreInsightsKept ==
    (op = "get_addiction_insights" /\ db = "connected" /\ results # Raised) =>
        /\ MessagesOf(results.insights) \subseteq MessagesOf(response.insights)
        /\ \A i \in DOMAIN results.recommendations :
               \E j \in DOMAIN response.recommendations :
                   response.recommendations[j] = results.recommendations[i]

----------------------------------------------------------------------------
(* Lazy training.                                                          *)

FullyFitted(engine, models) ==
    {models[i] : i \in DOMAIN models} \subseteq engine.fitted

\* C15: with requests interleaving, _train_models of the MLEngine and of the
\* UsagePredictor is entered at most once each, is_trained is true only when
\* every model has been fitted, and every call that has scored did so with
\* is_trained true and every model of its engine fitted.
C15_TrainingMutuallyExclusive ==
    /\ ml_engine.trainings <= 1
    /\ predictor.trainings <= 1
    /\ ml_engine.is_trained => FullyFitted(ml_engine, MLEngineModels)
    /\ predictor.is_trained => FullyFitted(predictor, UsagePredictorModels)
    /\ \A r \in DOMAIN requests :
          requests[r].scored # None =>
              /\ requests[r].scored.is_trained
              /\ FullyFitted(requests[r].scored, ModelsOf(requests[r].handler))

\* a request is in the middle of _train_models, two models fitted, while
\* another request for the same engine is in flight
C15_Witness ==
    \E r1, r2 \in Requests :
        /\ r1 # r2
        /\ requests[r1].handler = "log_usage"
        /\ requests[r2].handler = "log_usage"
        /\ requests[r1].at = "_train_models" /\ requests[r1].step = 2
        /\ requests[r2].at = "save_usage_log"

----------------------------------------------------------------------------
(* Missing data in analyze_behavior.                                       *)

InsufficientData == [message |-> "Insufficient data for analysis"]

\* C16: analyze_behavior answers with the insufficient-data result when the
\* user has no usage logs, and otherwise with an analysis of the logs
\* supplied for that user and of nothing else.
C16_NoLogsIsInsufficientData ==
    op = "get_insights" =>
        \/ results = InsufficientData
        \/ /\ "user_id" \in DOMAIN results
           /\ get_usage_logs(results.user_id, 30) # {<<>>}
           /\ "synthetic" \notin DOMAIN results

----------------------------------------------------------------------------
(* Per-day aggregates against the logs they were built from.               *)

\* the last operation produced per-day records from stored logs
AggregatedFromLogs == op = "get_three_day_data" \/ ViewFromLogs

\* the calendar day of a record of the window
DayOf(record) ==
    IF op = "get_three_day_data" THEN record.date ELSE record.date.isoformat

\* the stored logs a record of the window was aggregated from: those of its
\* day, and in the addiction-insights flow those of the requested user in
\* the last 7 days
DayLogs(record) ==
    {d \in BagToSet(logs) :
        /\ d.timestamp.date = DayOf(record)
        /\ op = "get_addiction_insights" =>
               /\ d.user_id = response.user_id
               /\ Minutes(d.timestamp) >= Minutes(now) - 7 * 24 * 60}

RECURSIVE TotalMinutes(_)
TotalMinutes(docs) ==
    IF docs = {} THEN 0
    ELSE LET d == CHOOSE x \in docs : TRUE
         IN CopiesIn(d, logs) * d.duration + TotalMinutes(docs \ {d})

RECURSIVE Sessions(_)
Sessions(docs) ==
    IF docs = {} THEN 0
    ELSE LET d == CHOOSE x \in docs : TRUE
         IN CopiesIn(d, logs) + Sessions(docs \ {d})

\* the time-of-day bucket of an hour
BucketOfHour(h) ==
    IF 6 <= h /\ h < 12 THEN "morning"
    ELSE IF 12 <= h /\ h < 18 THEN "afternoon"
    ELSE IF 18 <= h /\ h < 22 THEN "evening"
    ELSE "night"

InBucket(docs, bucket) ==
    {d \in docs : BucketOfHour(d.timestamp.hour) = bucket}

\* C17: in every per-day record of either aggregator each bucket holds the
\* minutes of exactly the day's events whose hour h lies in it: morning
\* 6 <= h < 12, afternoon 12 <= h < 18, evening 18 <= h < 22, night
\* otherwise.
C17_BucketsByHour ==
    AggregatedFromLogs =>
        \A i \in DOMAIN three_day_data :
            LET record == three_day_data[i]
                docs == DayLogs(record)
            IN /\ record.morning_usage = TotalMinutes(InBucket(docs, "morning"))
               /\ record.afternoon_usage = TotalMinutes(InBucket(docs, "afternoon"))
               /\ record.evening_usage = TotalMinutes(InBucket(docs, "evening"))
               /\ record.night_usage = TotalMinutes(InBucket(docs, "night"))

\* C18: in every per-day record of either aggregator binge_sessions is the
\* number of the day's sessions that lasted more than 45 minutes.
C18_BingeSessionsCounted ==
    AggregatedFromLogs =>
        \A i \in DOMAIN three_day_data :
            three_day_data[i].binge_sessions
                = Sessions({d \in DayLogs(three_day_data[i]) : d.duration > 45})

\* C19: in every per-day record of either aggregator the day's events split
\* into four disjoint groups whose minutes are social_media_time,
\* entertainment_time, productivity_time and other_time; other_time is
\* max(0, total - the three others), is not negative, and the four add up
\* to total_duration.
C19_CategoriesPartitionTotal ==
    AggregatedFromLogs =>
        \A i \in DOMAIN three_day_data :
            LET record == three_day_data[i]
                docs == DayLogs(record)
                named == record.social_media_time + record.entertainment_time
                         + record.productivity_time
            IN /\ record.other_time >= 0
               /\ record.other_time = Max(0, record.total_duration - named)
               /\ named + record.other_time = record.total_duration
               /\ \E group \in [docs -> {"social", "entertainment",
                                         "productivity", "other"}] :
                      /\ record.social_media_time
                             = TotalMinutes({d \in docs : group[d] = "social"})
                      /\ record.entertainment_time
                             = TotalMinutes({d \in docs : group[d] = "entertainment"})
                      /\ record.productivity_time
                             = TotalMinutes({d \in docs : group[d] = "productivity"})
                      /\ record.other_time
                             = TotalMinutes({d \in docs : group[d] = "other"})

\* a day of the addiction-insights window with minutes in two categories
C19_Witness ==
    /\ ViewFromLogs
    /\ \E i \in DOMAIN three_day_data :
           /\ three_day_data[i].social_media_time > 0
           /\ three_day_data[i].other_time > 0

----------------------------------------------------------------------------
(* Real-time pattern detection, on the buffer a process_usage call left.   *)

\* the sum of the session durations of the buffer entries at the positions
\* in indices: the size of the bag holding each position as often as its
\* entry's duration
DurationAt(indices) ==
    BagCardinality([i \in {j \in indices : usage_buffer[j].session_duration > 0}
                       |-> usage_buffer[i].session_duration])

\* the positions of the last n buffer entries
LastPositions(n) == {i \in 1..Len(usage_buffer) : i > Len(usage_buffer) - n}

PatternsOfType(type) ==
    SelectSeq(tracker_result.patterns.patterns,
              LAMBDA pattern : pattern.type = type)

AlertsOfType(type) ==
    SelectSeq(tracker_result.alerts, LAMBDA alert : alert.type = type)

\* C24: a process_usage call that leaves fewer than 10 entries in the buffer
\* returns no patterns, confidence 0 and no binge_detected alert; a call
\* that leaves 10 or more returns the result of all three detectors: one
\* binge_usage pattern iff the last 20 entries sum to more than an hour,
\* one peak_usage_time pattern iff some hour of the day holds more than
\* an hour of durations, one app_switching pattern iff the last 10
\* entries name 5 or more apps, and nothing else.
C24_DetectionNeedsTenEntries ==
    tracker_result # None =>
        IF Len(usage_buffer) < 10
        THEN /\ tracker_result.patterns.patterns = <<>>
             /\ tracker_result.patterns.confidence = 0
             /\ AlertsOfType("binge_detected") = <<>>
        ELSE /\ Len(PatternsOfType("binge_usage"))
                    = IF DurationAt(LastPositions(20)) > 3600 THEN 1 ELSE 0
             /\ Len(PatternsOfType("peak_usage_time"))
                    = IF \E hour \in 0..23 :
                             DurationAt({i \in 1..Len(usage_buffer) :
                                 EntryHour(usage_buffer[i]) = hour}) > 3600
                      THEN 1 ELSE 0
             /\ Len(PatternsOfType("app_switching"))
                    = IF Cardinality({usage_buffer[i].app_name :
                                         i \in LastPositions(10)}) >= 5
                      THEN 1 ELSE 0
             /\ Len(tracker_result.patterns.patterns)
                    = Len(PatternsOfType("binge_usage"))
                      + Len(PatternsOfType("peak_usage_time"))
                      + Len(PatternsOfType("app_switching"))

\* a call left nine entries that hold more than an hour of durations: only
\* the size of the buffer keeps the binge pattern away
C24_Witness ==
    /\ tracker_result # None
    /\ Len(usage_buffer) = 9
    /\ DurationAt(1..9) > 3600
    /\ tracker_result.patterns.patterns = <<>>

\* C25: with 10 or more entries buffered, a binge pattern is returned iff
\* the durations of the last 20 entries (of all, below 20) sum to more than
\* 3600 seconds, with severity high iff the sum is above 7200 seconds and
\* medium otherwise; the entries before the last 20 play no part.
C25_BingeOverLastTwenty ==
    (tracker_result # None /\ Len(usage_buffer) >= 10) =>
        LET total_time == DurationAt(LastPositions(20))
            binge == PatternsOfType("binge_usage")
        IN IF total_time > 3600
           THEN /\ Len(binge) = 1
                /\ binge[1].severity
                       = IF total_time > 7200 THEN "high" ELSE "medium"
           ELSE binge = <<>>

\* more than 20 entries, more than an hour of durations in all of them but
\* not in the last 20, and no binge pattern
C25_Witness ==
    /\ tracker_result # None
    /\ Len(usage_buffer) > 20
    /\ DurationAt(1..Len(usage_buffer)) > 3600
    /\ DurationAt(LastPositions(20)) <= 3600
    /\ PatternsOfType("binge_usage") = <<>>

\* the user of the event the last call processed
LastUser == usage_buffer[Len(usage_buffer)].user_id

\* every event of the user is still in the buffer
AllEventsBuffered(user_id) ==
    \A key \in DOMAIN session_calls :
        (\E i \in 1..Len(usage_buffer) :
            /\ usage_buffer[i].user_id = user_id
            /\ EntryKey(usage_buffer[i]) = key)
        => Len(EntriesOf(key)) = session_calls[key].completed

\* C28: the patterns, confidence and pattern-derived alerts a call returns
\* for an event of user U are those of the history without the other
\* users' events, in which the buffer holds U's entries alone.
C28_OtherUsersDoNotMatter ==
    (tracker_result # None /\ AllEventsBuffered(LastUser)) =>
        LET own == SelectSeq(usage_buffer,
                             LAMBDA entry : entry.user_id = LastUser)
            alone == detect_patterns(own)
        IN /\ tracker_result.patterns = alone
           /\ AlertsOfType("binge_detected")
                  = SelectSeq(check_alerts(tracker_result.session_info, alone, 0),
                              LAMBDA alert : alert.type = "binge_detected")

\* C30: a process_usage call for a key adds the key to the session map or
\* adds one interaction to its session, whose start_time stays and whose
\* total_time does not decrease; every other session stays as it was; the
\* buffer gains one entry, for this event, behind the entries it held,
\* less the oldest one when it was full.
C30_OnlyOwnKeyChanges ==
    [][session_calls' # session_calls =>
         LET entry == usage_buffer'[Len(usage_buffer')]
             key == EntryKey(entry)
         IN /\ DOMAIN active_sessions' = DOMAIN active_sessions \cup {key}
            /\ \A other \in DOMAIN active_sessions \ {key} :
                   active_sessions'[other] = active_sessions[other]
            /\ IF key \in DOMAIN active_sessions
               THEN /\ active_sessions'[key].interactions
                          = active_sessions[key].interactions + 1
                    /\ active_sessions'[key].start_time
                          = active_sessions[key].start_time
                    /\ active_sessions'[key].total_time
                          >= active_sessions[key].total_time
               ELSE /\ active_sessions'[key].interactions = 1
                    /\ active_sessions'[key].start_time = clock'
                    /\ active_sessions'[key].total_time = 0
            /\ entry.timestamp = clock'
            /\ entry.session_duration = active_sessions'[key].total_time
            /\ entry.interactions = active_sessions'[key].interactions
            /\ DropLastN(usage_buffer', 1)
                   = IF Len(usage_buffer) >= usage_buffer_maxlen
                     THEN Tail(usage_buffer)
                     ELSE usage_buffer]_vars

\* the last call was a later event of its key, which has run for a while,
\* and the map holds other sessions too
C30_Witness ==
    /\ tracker_result # None
    /\ tracker_result.session_info.interactions >= 2
    /\ tracker_result.session_info.total_time > 0
    /\ Cardinality(DOMAIN active_sessions) >= 3

----------------------------------------------------------------------------
(* The confidence of a pattern list, in tenths.                            *)

WithSeverity(severity) ==
    {i \in 1..Len(detected) : "severity" \in DOMAIN detected[i]
                                 /\ detected[i].severity = severity}

\* C26: the confidence of a pattern list is min(0.3 x count + 0.2 for each
\* pattern of severity high + 0.1 for each of severity medium, 1.0), whether
\* or not the count term alone exceeds 1.0; it is 0 for the empty list and
\* lies between 0 and 1.
C26_ConfidenceFormula ==
    /\ confidence = Min(3 * Len(detected)
                            + 2 * Cardinality(WithSeverity("high"))
                            + Cardinality(WithSeverity("medium")), 10)
    /\ detected = <<>> => confidence = 0
    /\ confidence \in 0..10

\* four patterns, whose count term alone is above 1.0, one of them high
C26_Witness ==
    /\ Len(detected) = 4
    /\ WithSeverity("high") # {}
    /\ confidence = 10

----------------------------------------------------------------------------
(* The three anomaly checks, on a matrix of 5 or more days.                *)

\* the rows the checks read, and their split into the last 3 days and the
\* days before them
CheckedRows == LastN(features, 14)
RecentRows == LastN(CheckedRows, 3)
EarlierRows == DropLastN(CheckedRows, 3)

TotalOf(rows) == SumColumn(rows, FeatureTotal, 1, Len(rows))
NightOf(rows) == SumColumn(rows, FeatureNight, 1, Len(rows))

AnomaliesOfType(type) ==
    SelectSeq(anomalies, LAMBDA anomaly : anomaly.type = type)

\* mean(binge_score of the last 3 days) > 0.3, the three scores brought to
\* one denominator
RecentBingeAboveLevel ==
    LET b == [i \in 1..3 |-> RecentRows[i].binge_score]
    IN 10 * (b[1].num * b[2].den * b[3].den + b[2].num * b[1].den * b[3].den
             + b[3].num * b[1].den * b[2].den)
           > 3 * 3 * b[1].den * b[2].den * b[3].den

\* C21: on 5 or more days the result holds one usage_spike iff the mean
\* total of the last 3 days is above 1.5 times the mean of the earlier days
\* (high iff above twice that mean, else medium), one night_usage_increase
\* iff the mean night session count of the last 3 days is above twice that
\* of the earlier days, one binge_behavior iff the mean binge score of the
\* last 3 days is above 0.3, and nothing else.
C21_ThreeIndependentChecks ==
    Len(features) >= 5 =>
        LET h == Len(EarlierRows)
            spike == AnomaliesOfType("usage_spike")
        IN /\ Len(spike)
                  = IF 2 * TotalOf(RecentRows) * h > 3 * 3 * TotalOf(EarlierRows)
                    THEN 1 ELSE 0
           /\ \A i \in 1..Len(spike) :
                  spike[i].severity
                      = IF TotalOf(RecentRows) * h > 2 * 3 * TotalOf(EarlierRows)
                        THEN "high" ELSE "medium"
           /\ Len(AnomaliesOfType("night_usage_increase"))
                  = IF NightOf(RecentRows) * h > 2 * 3 * NightOf(EarlierRows)
                    THEN 1 ELSE 0
           /\ Len(AnomaliesOfType("binge_behavior"))
                  = IF RecentBingeAboveLevel THEN 1 ELSE 0
           /\ Len(anomalies)
                  = Len(spike) + Len(AnomaliesOfType("night_usage_increase"))
                    + Len(AnomaliesOfType("binge_behavior"))

\* the last 3 days average exactly twice the earlier days: a usage spike
\* of severity medium, and neither of the other two anomalies
C21_Witness ==
    /\ Len(features) >= 5
    /\ TotalOf(RecentRows) * Len(EarlierRows) = 2 * 3 * TotalOf(EarlierRows)
    /\ TotalOf(EarlierRows) > 0
    /\ Len(anomalies) = 1
    /\ anomalies[1].type = "usage_spike"
    /\ anomalies[1].severity = "medium"

\* C29: whenever a usage_spike anomaly is built, the mean of the earlier
\* days, by which its description divides, is not 0.
C29_SpikeDivisorNotZero ==
    \A i \in 1..Len(anomalies) :
        anomalies[i].type = "usage_spike" =>
            /\ TotalOf(EarlierRows) # 0
            /\ anomalies[i].description.den # 0

----------------------------------------------------------------------------
(* Cluster stability.                                                      *)

\* how many of the last 7 assignments are the cluster
InLastSeven(cluster) ==
    Cardinality({i \in 1..Len(cluster_history) :
                    /\ i > Len(cluster_history) - 7
                    /\ cluster_history[i] = cluster})

\* C22: the stability is 0.5 below 7 assignments; from 7 on it is the
\* number of the last 7 assignments that equal the most common one among
\* them, over 7, whatever came before them; it lies between 0 and 1, and
\* with 4 clusters it is at least 2/7.
C22_StabilityOfLastSeven ==
    IF Len(cluster_history) < 7
    THEN stability = Ratio(1, 2)
    ELSE /\ stability.den = 7
         /\ \E cluster \in 0..3 : stability.num = InLastSeven(cluster)
         /\ \A cluster \in 0..3 : stability.num >= InLastSeven(cluster)
         /\ 0 <= stability.num /\ stability.num <= stability.den
         /\ 2 <= stability.num

\* eight assignments, the first of a cluster that would be the most common
\* one of all eight; no cluster has more than 2 of the last 7
C22_Witness ==
    /\ Len(cluster_history) = 8
    /\ cluster_history[1] = 0
    /\ InLastSeven(0) = 2
    /\ stability = Ratio(2, 7)

----------------------------------------------------------------------------
(* The consistency score.                                                  *)

LoggedDays ==
    {behavior_log[i].timestamp.date : i \in 1..Len(behavior_log)}

\* the total of a day: its entries' durations, each counted as often as
\* its minutes
DayTotal(day) ==
    BagCardinality([i \in {j \in 1..Len(behavior_log) :
                              /\ behavior_log[j].timestamp.date = day
                              /\ behavior_log[j].duration > 0}
                       |-> behavior_log[i].duration])

\* the sum over the logged days of their total to the power 1 or 2
RECURSIVE PowerSum(_, _)
PowerSum(days, power) ==
    IF days = {} THEN 0
    ELSE LET day == CHOOSE d \in days : TRUE
         IN (IF power = 1 THEN DayTotal(day) ELSE DayTotal(day) * DayTotal(day))
            + PowerSum(days \ {day}, power)

ScoreIsOne ==
    consistency.whole = Ratio(1, 1) /\ consistency.root.num = 0

\* C23: below 7 distinct days the score is 0.5; from 7 days on it is
\* max(0, 1 - stddev / mean) of the daily totals, with stddev / mean taken
\* as 0 when the mean is 0: 1 when all daily totals are equal, zero or not;
\* the score lies between 0 and 1.
C23_ConsistencyScore ==
    LET n == Cardinality(LoggedDays)
        S == PowerSum(LoggedDays, 1)
        Q == PowerSum(LoggedDays, 2)
    IN /\ n < 7 => consistency = ScoreValue(Ratio(1, 2), Ratio(0, 1))
       /\ n >= 7 =>
              /\ S = 0 => ScoreIsOne
              /\ (\A a, b \in LoggedDays : DayTotal(a) = DayTotal(b))
                     => ScoreIsOne
              /\ (S # 0 /\ n * Q - S * S < S * S) =>
                     consistency
                         = ScoreValue(Ratio(1, 1), Ratio(n * Q - S * S, S * S))
              /\ (S # 0 /\ n * Q - S * S >= S * S) =>
                     consistency = ScoreValue(Ratio(0, 1), Ratio(0, 1))
       /\ consistency.whole.num >= 0
       /\ consistency.whole.num <= consistency.whole.den
       /\ consistency.root.num >= 0
       /\ consistency.root.num * consistency.whole.den * consistency.whole.den
              <= consistency.whole.num * consistency.whole.num
                     * consistency.root.den

----------------------------------------------------------------------------
(* The prediction cache.                                                   *)

\* C27: a get_predictions request returns the stored prediction of the user
\* only if that was saved less than 300 seconds before the request; when
\* the stored prediction is 300 seconds old or older, however old, the
\* request computes a new prediction, stores it and returns it.
C27_CacheNeverStale ==
    [][prediction_requests' # prediction_requests =>
         LET user_id == prediction_response'.user_id
         IN user_id \in DOMAIN predictions =>
                LET age == wall_clock' - predictions[user_id].updated_at
                IN /\ prediction_response'.predictions = predictions[user_id]
                       => age < 300
                   /\ age >= 300 =>
                       /\ prediction_response'.predictions
                              = Prediction(wall_clock')
                       /\ predictions'[user_id].current_features = wall_clock'
                       /\ predictions'[user_id].updated_at = wall_clock']_vars

====
